---- MODULE Spec2Model ----
(***************************************************************************)
(* Model of the ask-anything-mcp core: the in-memory SessionManager, the   *)
(* ToolRegistry (conditional registration and executeTool) and the         *)
(* MCPCore library facade (executeTool / executeTools).                    *)
(*                                                                         *)
(* JavaScript values are represented as follows.                           *)
(*   null                    the string Null                               *)
(*   a session id string     the pair <<t, r>> of the Date.now() value and *)
(*                           the Math.random() suffix it is formatted from *)
(*   an ISO timestamp        the millisecond count it round-trips to       *)
(*   childrenCache           [isNull |-> BOOLEAN, items |-> Seq(child)]    *)
(***************************************************************************)
EXTENDS Integers, Sequences, FiniteSets, TLC

(* ------------------------------ bounds -------------------------------- *)
MaxDays == 1        \* whole days the clock may advance
MaxMs == 1          \* milliseconds the clock may advance within a day
MaxRand == 2        \* distinct Math.random() suffixes
MaxSessions == 1    \* sessions held by the store at one time
MaxBatch == 2       \* calls in one executeTools batch
MaxInvocations == 1 \* executeTools invocations in one behaviour
MaxBeside == 1      \* sessions held beside the first one where sessions are compared

(* ----------------------------- constants ------------------------------ *)
HourMs == 3600000
DayMs == 86400000   \* 24 * 60 * 60 * 1000

(* ------------------------------ values -------------------------------- *)
Null == "null"
NoSessionId == <<>>

ErrSessionNotFound == "Session not found"
ErrNoChildSelected == "No child selected. Please use the \"select_child\" tool first."
NoError == "none"

Users == {"u1"}
ChildIdVals == {"c1", ""}
ChildNameVals == {"Child One"}

NullCache == [isNull |-> TRUE, items |-> <<>>]

VARIABLES
  sessions,     \* SessionManager.sessions : Map sessionId -> session object
  now,          \* the wall clock read by Date.now() / new Date()
  last,         \* observation of the most recent store call and its outcome
  allowChildSwitching,  \* mcpOptions.allowChildSwitching the registry was built with
  pendingUpdateVersion, \* AutoUpdater.pendingUpdateVersion
  coreSessionId,        \* MCPCore.sessionId
  invocations,          \* how many times executeTools has been invoked
  batchStatus,          \* "idle", "running", "rejected", "returned" or "thrown"
  toolCalls,            \* the argument of the executeTools call in progress
  callState,            \* per call of the batch: how far its executeTool has come
  results,              \* the results array executeTools builds
  tools,                \* ToolRegistry.tools: the registered names, in Map order
  condensation,         \* a call of condenseObject: its arguments and its result
  transformation        \* a call of a response transformer: its arguments and its result

storeVars == <<sessions, now, last>>
batchVars == <<invocations, batchStatus, toolCalls, callState, results>>
coreVars == <<allowChildSwitching, tools, condensation, transformation,
              pendingUpdateVersion, coreSessionId,
              batchVars>>
vars == <<storeVars, coreVars>>

NoChild == [childId |-> Null, childName |-> Null]

Obs(op, sid, ok, err, retId, retChild) ==
  [op |-> op, sid |-> sid, ok |-> ok, err |-> err, retId |-> retId, retChild |-> retChild]

(* JavaScript truthiness of a string-or-null value: !v is true for null,   *)
(* for undefined and for the empty string.                                 *)
(* A strict null test in place of the truthiness test. *)
Falsy_nullOnly(v) == v = Null

Falsy(v) == v = Null \/ v = "" \/ v = "undefined"

(* ------------------------- SessionManager ------------------------------ *)
FormatSessionId(t, r) == <<t, r>>

NewSession(sessionId, userId, t) ==
  [sessionId |-> sessionId,
   userId |-> userId,
   selectedChildId |-> Null,
   selectedChildName |-> Null,
   childrenCache |-> NullCache,
   createdAt |-> t,
   lastActivity |-> t]

(* Map.set: adds the key or replaces the value already stored under it.    *)
MapSet(m, k, v) == [x \in DOMAIN m \cup {k} |-> IF x = k THEN v ELSE m[x]]

(* A getSession that leaves lastActivity alone. *)
Touch_none(m, k, t) == m
(* session.lastActivity = new Date().toISOString() *)
Touch(m, k, t) == [m EXCEPT ![k].lastActivity = t]

(* Object.assign(session, updates): a provided lastActivity is kept. *)
Assign_updatesLast(session, updates, t) ==
  [f \in DOMAIN session \cup DOMAIN updates |->
     IF f \in DOMAIN updates THEN updates[f]
     ELSE IF f = "lastActivity" THEN t
     ELSE session[f]]

(* Object.assign(session, updates, {lastActivity}): the sources are copied *)
(* in turn, so the lastActivity of the last source wins.                   *)
Assign(session, updates, t) ==
  [f \in DOMAIN session \cup DOMAIN updates \cup {"lastActivity"} |->
     IF f = "lastActivity" THEN t
     ELSE IF f \in DOMAIN updates THEN updates[f]
     ELSE session[f]]

(* The store calls as functions of the store m and the clock t.  Each      *)
(* yields the store after the call and the message of the error thrown     *)
(* (NoError when the call returns).                                        *)

(* A getSession that registers the missing id instead of throwing. *)
GetSessionCall_createOnMiss(m, sessionId, t) ==
  IF sessionId \notin DOMAIN m
  THEN [store |-> MapSet(m, sessionId, NewSession(sessionId, "u1", t)), err |-> NoError]
  ELSE [store |-> Touch(m, sessionId, t), err |-> NoError]

GetSessionCall(m, sessionId, t) ==
  IF sessionId \notin DOMAIN m
  THEN [store |-> m, err |-> ErrSessionNotFound]
  ELSE [store |-> Touch(m, sessionId, t), err |-> NoError]

UpdateSessionCall(m, sessionId, updates, t) ==
  LET g == GetSessionCall(m, sessionId, t) IN
  IF g.err # NoError
  THEN g
  ELSE [store |-> [g.store EXCEPT ![sessionId] = Assign(@, updates, t)], err |-> NoError]

(* A selection that refreshes the session and stores nothing. *)
SetSelectedChildCall_dropped(m, sessionId, childId, childName, t) ==
  UpdateSessionCall(m, sessionId, <<>>, t)

SetSelectedChildCall(m, sessionId, childId, childName, t) ==
  UpdateSessionCall(m, sessionId,
                    [selectedChildId |-> childId, selectedChildName |-> childName], t)

SelectedChildOf(session) ==
  [childId |-> session.selectedChildId, childName |-> session.selectedChildName]

GetSelectedChildCall(m, sessionId, t) ==
  LET g == GetSessionCall(m, sessionId, t) IN
  IF g.err # NoError
  THEN [store |-> g.store, err |-> g.err, child |-> NoChild]
  ELSE IF Falsy(g.store[sessionId].selectedChildId)
  THEN [store |-> g.store, err |-> ErrNoChildSelected, child |-> NoChild]
  ELSE [store |-> g.store, err |-> NoError, child |-> SelectedChildOf(g.store[sessionId])]

Restrict(m, keep) == [k \in keep |-> m[k]]

(* A sweep that also deletes a session idle for exactly 24 hours. *)
CleanupCall_inclusive(m, t) ==
  LET oneDayAgo == t - DayMs IN
  Restrict(m, {k \in DOMAIN m : ~(m[k].lastActivity <= oneDayAgo)})

CleanupCall(m, t) ==
  LET oneDayAgo == t - DayMs IN
  Restrict(m, {k \in DOMAIN m : ~(m[k].lastActivity < oneDayAgo)})

(* The sessionId field of the session object a call returns. *)
ReturnedId(r, sessionId) ==
  IF r.err = NoError THEN r.store[sessionId].sessionId ELSE NoSessionId

(* ----------------------------- the clock ------------------------------ *)
(* Every value Date.now() can take within the bounds. *)
ClockVals == {d * DayMs + m : d \in 0..MaxDays, m \in 0..MaxMs}

(* The ages in hours a caller may pass to the sweep. *)
MaxAgeHoursVals == {12, 24}

(* An id no createSession call returns: Math.random() suffixes start at 1  *)
(* in this model.                                                          *)
UnknownSessionId == FormatSessionId(0, 0)

(* The ids callers pass: those of the stored sessions and an unknown one.  *)
CallerIds == DOMAIN sessions \cup {UnknownSessionId}

(* ----------------------------- ToolRegistry --------------------------- *)
SelectChildName == "select_child"

(* Tool.definition.name of every tool class, in the order registerTools    *)
(* registers them; select_child only when its instance was created.        *)
RegistrationOrder_always(allow) ==
  <<"list_children", SelectChildName, "list_village_members",
    "get_behavior_scores", "get_date_range_metadata",
    "search_journal_entries", "get_journal_entry", "get_journal_entry_analysis",
    "list_journal_entries",
    "get_overview_analysis", "get_behavior_analysis", "get_medication_analysis",
    "get_medication_detailed_analysis", "get_journal_analysis", "get_hashtag_analysis",
    "get_version_info", "get_product_help", "submit_product_feedback">>

RegistrationOrder(allow) ==
  <<"list_children">>
  \o (IF allow # "false" THEN <<SelectChildName>> ELSE <<>>)
  \o <<"list_village_members",
       "get_behavior_scores", "get_date_range_metadata",
       "search_journal_entries", "get_journal_entry", "get_journal_entry_analysis",
       "list_journal_entries",
       "get_overview_analysis", "get_behavior_analysis", "get_medication_analysis",
       "get_medication_detailed_analysis", "get_journal_analysis", "get_hashtag_analysis",
       "get_version_info", "get_product_help", "submit_product_feedback">>

Range(seq) == {seq[i] : i \in 1..Len(seq)}

(* this.tools.set(name, definition) for each registration in turn: a Map   *)
(* keeps one entry per name, at the position of the name's first set.      *)
RECURSIVE MapKeys(_)
MapKeys(order) ==
  IF order = <<>> THEN <<>>
  ELSE LET front == MapKeys(SubSeq(order, 1, Len(order) - 1))
           name == order[Len(order)] IN
       IF name \in Range(front) THEN front ELSE Append(front, name)

(* The keys of this.tools after the constructor ran with the option allow, *)
(* which is also the order getToolDefinitions() lists the tools in.        *)
GetToolDefinitions(allow) == MapKeys(RegistrationOrder(allow))

Undefined == "undefined"
AllowVals == {"true", "false", Undefined}

(* No call of condenseObject is under way. *)
NotCondensing == [phase |-> "none"]
NotTransforming == [phase |-> "none"]

(* The state after construction: an empty store, a registry built with any *)
(* mcpOptions, no update downloaded, a core that is not yet initialized.   *)
Init ==
  /\ sessions = <<>>
  /\ now = 0
  /\ last = Obs("init", NoSessionId, TRUE, NoError, NoSessionId, NoChild)
  /\ allowChildSwitching \in AllowVals
  /\ tools = GetToolDefinitions(allowChildSwitching)
  /\ pendingUpdateVersion = Null
  /\ coreSessionId = NoSessionId
  /\ invocations = 0
  /\ batchStatus = "idle"
  /\ toolCalls = <<>>
  /\ callState = <<>>
  /\ results = <<>>
  /\ condensation = NotCondensing
  /\ transformation = NotTransforming

(* The store alone, under a registry built with the default options. *)
InitStore == Init /\ allowChildSwitching = Undefined

(* Time passes: by one millisecond or by one day. *)
Tick ==
  /\ \/ /\ now % DayMs < MaxMs
        /\ now' = now + 1
     \/ /\ now \div DayMs < MaxDays
        /\ now' = now + DayMs
  /\ UNCHANGED <<sessions, last, coreVars>>

(* ------------------- callers of the SessionManager -------------------- *)
(* createSession(userId): Date.now() is the clock, Math.random() is any    *)
(* suffix; the session is stored with Map.set under the formatted id.      *)
CreateSession ==
  \E userId \in Users, r \in 1..MaxRand :
    LET sessionId == FormatSessionId(now, r) IN
    /\ Cardinality(DOMAIN sessions \cup {sessionId}) <= MaxSessions
    /\ sessions' = MapSet(sessions, sessionId, NewSession(sessionId, userId, now))
    /\ last' = Obs("createSession", sessionId, TRUE, NoError, sessionId, NoChild)
    /\ UNCHANGED <<now, coreVars>>

GetSession ==
  \E sessionId \in CallerIds :
    LET r == GetSessionCall(sessions, sessionId, now) IN
    /\ sessions' = r.store
    /\ last' = Obs("getSession", sessionId, r.err = NoError, r.err,
                   ReturnedId(r, sessionId), NoChild)
    /\ UNCHANGED <<now, coreVars>>

(* A timestamp earlier than every value of the clock. *)
StaleTime == 0 - 1

(* The updates setSelectedChild passes on. *)
SelectionUpdates ==
  {[selectedChildId |-> c, selectedChildName |-> n] :
     c \in ChildIdVals \cup {Null}, n \in ChildNameVals \cup {Null}}

(* The partial field sets a caller may pass to updateSession. *)
UpdateChoices ==
       {[selectedChildId |-> c] : c \in ChildIdVals \cup {Null}}
  \cup {[selectedChildName |-> n] : n \in ChildNameVals \cup {Null}}
  \cup SelectionUpdates
  \cup {[sessionId |-> UnknownSessionId]}
  \cup {[lastActivity |-> StaleTime]}

(* The observation of an updateSession call, with the fields it was given. *)
ObsUpdate(sessionId, r, updates) ==
  [op |-> "updateSession", sid |-> sessionId, ok |-> r.err = NoError, err |-> r.err,
   retId |-> ReturnedId(r, sessionId), retChild |-> NoChild, updates |-> updates]

UpdateSession ==
  \E sessionId \in CallerIds, updates \in UpdateChoices \ SelectionUpdates :
    LET r == UpdateSessionCall(sessions, sessionId, updates, now) IN
    /\ sessions' = r.store
    /\ last' = Obs("updateSession", sessionId, r.err = NoError, r.err,
                   ReturnedId(r, sessionId), NoChild)
    /\ UNCHANGED <<now, coreVars>>

SetSelectedChild ==
  \E sessionId \in CallerIds, childId \in ChildIdVals \cup {Null},
     childName \in ChildNameVals \cup {Null} :
    LET r == SetSelectedChildCall(sessions, sessionId, childId, childName, now) IN
    /\ sessions' = r.store
    /\ last' = Obs("setSelectedChild", sessionId, r.err = NoError, r.err,
                   ReturnedId(r, sessionId), NoChild)
    /\ UNCHANGED <<now, coreVars>>

GetSelectedChild ==
  \E sessionId \in CallerIds :
    LET r == GetSelectedChildCall(sessions, sessionId, now) IN
    /\ sessions' = r.store
    /\ last' = Obs("getSelectedChild", sessionId, r.err = NoError, r.err,
                   NoSessionId, r.child)
    /\ UNCHANGED <<now, coreVars>>

(* The observation of a sweep: the argument the caller passed and the ids  *)
(* logged as 'Session cleaned up'.                                         *)
ObsSweep(maxAgeHours, removed) ==
  [op |-> "cleanupOldSessions", sid |-> NoSessionId, ok |-> TRUE, err |-> NoError,
   retId |-> NoSessionId, retChild |-> NoChild,
   maxAgeHours |-> maxAgeHours, removed |-> removed]

(* cleanupOldSessions declares no parameter: an argument is ignored. *)
CleanupOldSessions ==
  \E maxAgeHours \in MaxAgeHoursVals :
    /\ sessions' = CleanupCall(sessions, now)
    /\ last' = ObsSweep(maxAgeHours, DOMAIN sessions \ DOMAIN sessions')
    /\ UNCHANGED <<now, coreVars>>

NextStore ==
  \/ Tick
  \/ CreateSession
  \/ GetSession
  \/ UpdateSession
  \/ SetSelectedChild
  \/ GetSelectedChild
  \/ CleanupOldSessions

SpecStore == InitStore /\ [][NextStore]_vars

(* The store holding sessions side by side: createSession calls within     *)
(* one millisecond, and updateSession calls on the sessions they made.     *)
CreateSessionBeside ==
  \E userId \in Users, r \in 1..MaxRand :
    LET sessionId == FormatSessionId(now, r) IN
    /\ Cardinality(DOMAIN sessions \cup {sessionId}) <= MaxSessions + MaxBeside
    /\ sessions' = MapSet(sessions, sessionId, NewSession(sessionId, userId, now))
    /\ last' = Obs("createSession", sessionId, TRUE, NoError, sessionId, NoChild)
    /\ UNCHANGED <<now, coreVars>>

(* updateSession(sessionId, updates), observed with its updates. *)
UpdateSessionBeside ==
  \E sessionId \in CallerIds, updates \in UpdateChoices :
    LET r == UpdateSessionCall(sessions, sessionId, updates, now) IN
    /\ sessions' = r.store
    /\ last' = ObsUpdate(sessionId, r, updates)
    /\ UNCHANGED <<now, coreVars>>

NextBeside ==
  \/ CreateSessionBeside
  \/ UpdateSessionBeside

SpecBeside == InitStore /\ [][NextBeside]_vars

(* ------------------------ the data service ---------------------------- *)
ChildOne == [childId |-> "c1", fullName |-> "Child One", preferredName |-> "One",
             nicknames |-> <<>>]
ChildTwo == [childId |-> "c2", fullName |-> "Kid Two", preferredName |-> "Two",
             nicknames |-> <<"K2">>]
Roster == <<ChildOne, ChildTwo>>

ApiNetworkError == "Network Error"

(* error.response?.status of a failure without an HTTP response. *)
NoStatus == 0

ApiReply(ok, children, data, msg) ==
  [ok |-> ok, children |-> children, data |-> data, msg |-> msg, status |-> NoStatus]

(* A request the data service answered with an HTTP error status. *)
ApiFailure(status) ==
  [ApiReply(FALSE, <<>>, Null, "Request failed with status code " \o ToString(status))
     EXCEPT !.status = status]

(* What apiClient.getChildren() can resolve or reject with. *)
GetChildrenReplies ==
  {ApiReply(TRUE, Roster, Null, NoError),
   ApiReply(TRUE, <<>>, Null, NoError),
   ApiReply(FALSE, <<>>, Null, ApiNetworkError)}

(* What apiClient.getDateRangeMetadata(childId) can resolve or reject      *)
(* with: response.data present, response.data null, or a failure.          *)
GetDateRangeMetadataReplies ==
  {ApiReply(TRUE, <<>>, "metadata", NoError),
   ApiReply(TRUE, <<>>, Null, NoError),
   ApiReply(FALSE, <<>>, Null, ApiNetworkError)}

(* What the request behind apiClient.getAnalysisData(childId, timeRange,    *)
(* 'journal') can be answered with: a payload, a null payload, 403, 404,   *)
(* or no answer.                                                           *)
GetAnalysisDataReplies ==
  {ApiReply(TRUE, <<>>, "analysis", NoError),
   ApiReply(TRUE, <<>>, Null, NoError),
   ApiFailure(403),
   ApiFailure(404),
   ApiReply(FALSE, <<>>, Null, ApiNetworkError)}

(* What the request behind apiClient.getJournalEntry(childId, id) can be   *)
(* answered with.                                                          *)
GetJournalEntryReplies ==
  {ApiReply(TRUE, <<>>, "entry", NoError),
   ApiFailure(403),
   ApiFailure(404)}

(* catch (error) { if (error.response?.status === 404) return null; throw  *)
(* error; } in getAnalysisData and getJournalEntry.                        *)
NullOnNotFound(reply) ==
  IF ~reply.ok /\ reply.status = 404 THEN ApiReply(TRUE, <<>>, Null, NoError) ELSE reply

(* --------------------------- string helpers --------------------------- *)
UpperLetters == "ABCDEFGHIJKLMNOPQRSTUVWXYZ"
LowerLetters == "abcdefghijklmnopqrstuvwxyz"

LowerChar(c) ==
  IF \E i \in 1..26 : SubSeq(UpperLetters, i, i) = c
  THEN LET i == CHOOSE j \in 1..26 : SubSeq(UpperLetters, j, j) = c IN
       SubSeq(LowerLetters, i, i)
  ELSE c

RECURSIVE ToLowerCase(_)
ToLowerCase(str) ==
  IF str = "" THEN ""
  ELSE LowerChar(SubSeq(str, 1, 1)) \o ToLowerCase(SubSeq(str, 2, Len(str)))

(* String.prototype.includes *)
Includes(str, part) ==
  \/ part = ""
  \/ \E i \in 1..(Len(str) - Len(part) + 1) : SubSeq(str, i, i + Len(part) - 1) = part

(* The predicate of children.find in SelectChildTool.execute. *)
ChildMatches(c, searchName) ==
  \/ ToLowerCase(c.fullName) = searchName
  \/ ToLowerCase(c.preferredName) = searchName
  \/ \E i \in 1..Len(c.nicknames) : ToLowerCase(c.nicknames[i]) = searchName
  \/ Includes(ToLowerCase(c.fullName), searchName)
  \/ Includes(ToLowerCase(c.preferredName), searchName)

(* Array.prototype.find: the index of the first match, 0 when none. *)
FindChild(children, searchName) ==
  IF \E i \in 1..Len(children) : ChildMatches(children[i], searchName)
  THEN CHOOSE i \in 1..Len(children) :
         /\ ChildMatches(children[i], searchName)
         /\ \A j \in 1..(i - 1) : ~ChildMatches(children[j], searchName)
  ELSE 0

(* children.map(c => c.preferredName || c.fullName).join(', ') *)
RECURSIVE JoinNames(_)
JoinNames(children) ==
  IF children = <<>> THEN ""
  ELSE LET c == children[1]
           shown == IF Falsy(c.preferredName) THEN c.fullName ELSE c.preferredName IN
       IF Len(children) = 1 THEN shown
       ELSE shown \o ", " \o JoinNames(Tail(children))

(* ------------------------- handler outcomes --------------------------- *)
ErrNotInitialized ==
  "MCP Core not initialized. Call initializeWithToken() or initializeWithUserContext() first."
ErrToolNotFound(name) == "Tool not found: " \o name
ErrChildNameRequired == "Child name is required"
ErrChildNotFound(childName, children) ==
  "Child \"" \o childName \o "\" not found. Available children: " \o JoinNames(children)
ErrListChildren(msg) == "Failed to list children: " \o msg
ErrDateRange(msg) == "Failed to get date range metadata: " \o msg
ErrNullMetadata == "Cannot read properties of null (reading 'recentDailyActivity')"

(* A value a handler returns: a string (kind "text") or an object. *)
Value(kind, tool, childName, data) ==
  [kind |-> kind, tool |-> tool, childName |-> childName, data |-> data]

(* A string a handler returns. *)
Text(str) == [kind |-> "text", text |-> str]

NoValue == Value("none", "none", Null, Null)

(* How far one executeTool call has come.  state is "awaiting" while the   *)
(* handler is suspended on the data service, then "returned" or "threw".  *)
Outcome(store, state, value, error, childId) ==
  [store |-> store, state |-> state, value |-> value, error |-> error, childId |-> childId,
   childName |-> Null]
Threw(store, error) == Outcome(store, "threw", NoValue, error, Null)
Returned(store, value) == Outcome(store, "returned", value, NoError, Null)
Awaiting(store, childId) == Outcome(store, "awaiting", NoValue, NoError, childId)

(* A handler suspended with const { childId, childName } in its frame. *)
AwaitingFor(store, child) ==
  [Awaiting(store, child.childId) EXCEPT !.childName = child.childName]

CachedChildren(children) == [isNull |-> FALSE, items |-> children]

(* SelectChildTool.execute from children.find on. *)
(* A switch that drops the selection before it looks the name up. *)
SelectChildFinish_clearsFirst(m, t, key, args, children) ==
  LET idx == FindChild(children, ToLowerCase(args.childName))
      c == SetSelectedChildCall(m, m[key].sessionId, Null, Null, t) IN
  IF idx = 0
  THEN Threw(c.store, ErrChildNotFound(args.childName, children))
  ELSE LET child == children[idx]
           r == SetSelectedChildCall(m, m[key].sessionId, child.childId, child.fullName, t) IN
       IF r.err # NoError
       THEN Threw(r.store, r.err)
       ELSE Returned(r.store,
                     Text("Selected child: " \o child.fullName \o " (" \o child.preferredName
                          \o "). You can now ask questions about this child's behavior, "
                          \o "journal entries, medications, and more."))

SelectChildFinish(m, t, key, args, children) ==
  LET idx == FindChild(children, ToLowerCase(args.childName)) IN
  IF idx = 0
  THEN Threw(m, ErrChildNotFound(args.childName, children))
  ELSE LET child == children[idx]
           r == SetSelectedChildCall(m, m[key].sessionId, child.childId, child.fullName, t) IN
       IF r.err # NoError
       THEN Threw(r.store, r.err)
       ELSE Returned(r.store,
                     Text("Selected child: " \o child.fullName \o " (" \o child.preferredName
                          \o "). You can now ask questions about this child's behavior, "
                          \o "journal entries, medications, and more."))

(* SelectChildTool.execute up to its first suspension. *)
SelectChildStart(m, t, key, args) ==
  IF Falsy(args.childName)
  THEN Threw(m, ErrChildNameRequired)
  ELSE IF m[key].childrenCache.isNull
  THEN Awaiting(m, Null)
  ELSE SelectChildFinish(m, t, key, args, m[key].childrenCache.items)

(* SelectChildTool.execute after apiClient.getChildren settles. *)
SelectChildResume(m, t, key, args, reply) ==
  IF ~reply.ok
  THEN Threw(m, reply.msg)
  ELSE LET u == UpdateSessionCall(m, m[key].sessionId,
                                  [childrenCache |-> CachedChildren(reply.children)], t) IN
       IF u.err # NoError
       THEN Threw(u.store, u.err)
       ELSE SelectChildFinish(u.store, t, key, args, reply.children)

(* ListChildrenTool.execute after apiClient.getChildren settles. *)
ListChildrenResume(m, t, key, reply) ==
  IF ~reply.ok
  THEN Threw(m, ErrListChildren(reply.msg))
  ELSE LET u == UpdateSessionCall(m, m[key].sessionId,
                                  [childrenCache |-> CachedChildren(reply.children)], t) IN
       IF u.err # NoError
       THEN Threw(u.store, ErrListChildren(u.err))
       ELSE Returned(u.store,
                     Value("object", "list_children", Null,
                           IF Len(reply.children) = 0 THEN "no children" ELSE "children"))

(* GetDateRangeMetadataTool.execute up to its suspension. *)
DateRangeStart(m, t, key) ==
  LET g == GetSelectedChildCall(m, m[key].sessionId, t) IN
  IF g.err # NoError
  THEN Threw(g.store, g.err)
  ELSE AwaitingFor(g.store, g.child)

(* GetDateRangeMetadataTool.execute after the data service settles: the    *)
(* transformer accepts a null payload, the debug log that follows reads    *)
(* rawData.recentDailyActivity and throws on it inside the try block.      *)
DateRangeResume(m, t, key, reply) ==
  IF ~reply.ok
  THEN Threw(m, ErrDateRange(reply.msg))
  ELSE IF reply.data = Null
  THEN Threw(m, ErrDateRange(ErrNullMetadata))
  ELSE Returned(m, Value("object", "get_date_range_metadata",
                         m[key].selectedChildName, reply.data))

(* GetVersionInfoTool.execute: no suspension. *)
VersionInfo(m, key) ==
  Returned(m, Value("object", "get_version_info", Null,
                    IF Falsy(m[key].selectedChildId) THEN "none" ELSE m[key].selectedChildId))

(* get_journal_analysis: the enum of timeRange and the messages. *)
ValidTimeRanges ==
  {"last_7_days", "last_30_days", "last_90_days", "last_180_days", "last_365_days"}
ErrTimeRangeRequired == "Time range is required"
ErrInvalidTimeRange ==
  "Invalid time range. Must be one of: last_7_days, last_30_days, last_90_days, "
  \o "last_180_days, last_365_days"
ErrJournalAnalysis(msg) == "Failed to get journal analysis: " \o msg
ErrJournalEntry(msg) == "Failed to get journal entry: " \o msg

(* An object a handler returns in place of data. *)
SoftResult(tool, fields) ==
  [f \in {"kind", "tool"} \cup DOMAIN fields |->
     IF f = "kind" THEN "object" ELSE IF f = "tool" THEN tool ELSE fields[f]]

(* GetJournalAnalysisTool.execute up to its suspension. *)
JournalAnalysisStart(m, t, key, args) ==
  IF Falsy(args.timeRange)
  THEN Threw(m, ErrTimeRangeRequired)
  ELSE IF args.timeRange \notin ValidTimeRanges
  THEN Threw(m, ErrInvalidTimeRange)
  ELSE LET g == GetSelectedChildCall(m, m[key].sessionId, t) IN
       IF g.err # NoError
       THEN Threw(g.store, g.err)
       ELSE AwaitingFor(g.store, g.child)

(* A forbidden branch that throws its message. *)
JournalAnalysisForbidden_thrown(m, args, childName) ==
  Threw(m, "Access denied: You don't have permission to view journal entries for "
           \o childName \o ".")

(* if (error.response?.status === 403) return {...} *)
JournalAnalysisForbidden(m, args, childName) ==
  Returned(m, SoftResult("get_journal_analysis",
     [timeRange |-> args.timeRange, childName |-> childName,
      message |-> "Access denied: You don't have permission to view journal entries for "
                  \o childName \o ". This requires journal viewing permissions. "
                  \o "Contact a parent or guardian to request access.",
      hasData |-> FALSE, permissionError |-> TRUE]))

(* GetJournalAnalysisTool.execute after getAnalysisData settles. *)
JournalAnalysisResume(m, t, key, args, childName, reply) ==
  LET r == NullOnNotFound(reply) IN
  IF r.ok
  THEN IF r.data = Null
       THEN Returned(m, SoftResult("get_journal_analysis",
               [timeRange |-> args.timeRange, childName |-> childName,
                message |-> "No journal analysis data available for " \o childName
                            \o " in the " \o args.timeRange \o " period."]))
       ELSE Returned(m, Value("object", "get_journal_analysis", childName, r.data))
  ELSE IF r.status = 403
  THEN JournalAnalysisForbidden(m, args, childName)
  ELSE IF r.status = 404
  THEN Returned(m, SoftResult("get_journal_analysis",
          [timeRange |-> args.timeRange, childName |-> childName,
           message |-> "No journal analysis data found for " \o childName \o " in the "
                       \o args.timeRange \o " period. Journal entries may not exist yet "
                       \o "or analysis may not have been generated.",
           hasData |-> FALSE]))
  ELSE Threw(m, ErrJournalAnalysis(r.msg))

(* GetJournalEntryTool.execute up to its suspension: journalEntryId is     *)
(* read and passed on as it is.                                            *)
JournalEntryStart(m, t, key, args) ==
  LET g == GetSelectedChildCall(m, m[key].sessionId, t) IN
  IF g.err # NoError
  THEN Threw(g.store, g.err)
  ELSE AwaitingFor(g.store, g.child)

(* GetJournalEntryTool.execute after getJournalEntry settles. *)
JournalEntryResume(m, t, key, args, childName, reply) ==
  LET r == NullOnNotFound(reply) IN
  IF r.ok
  THEN IF r.data = Null
       THEN Returned(m, SoftResult("get_journal_entry", [error |-> "Journal entry not found"]))
       ELSE Returned(m, Value("object", "get_journal_entry", childName, r.data))
  ELSE Threw(m, ErrJournalEntry(r.msg))

(* tool.handler(args, session) up to the handler's first suspension. *)
HandlerStart(m, t, key, name, args) ==
  CASE name = SelectChildName -> SelectChildStart(m, t, key, args)
    [] name = "list_children" -> Awaiting(m, Null)
    [] name = "get_date_range_metadata" -> DateRangeStart(m, t, key)
    [] name = "get_version_info" -> VersionInfo(m, key)
    [] name = "get_journal_analysis" -> JournalAnalysisStart(m, t, key, args)
    [] name = "get_journal_entry" -> JournalEntryStart(m, t, key, args)

(* The rest of the handler once the awaited data-service call settles. *)
HandlerResume(m, t, key, name, args, childName, reply) ==
  CASE name = SelectChildName -> SelectChildResume(m, t, key, args, reply)
    [] name = "list_children" -> ListChildrenResume(m, t, key, reply)
    [] name = "get_date_range_metadata" -> DateRangeResume(m, t, key, reply)
    [] name = "get_journal_analysis" -> JournalAnalysisResume(m, t, key, args, childName, reply)
    [] name = "get_journal_entry" -> JournalEntryResume(m, t, key, args, childName, reply)

(* The data-service replies the suspended handler of tool name can get. *)
RepliesFor(name) ==
  CASE name = "get_date_range_metadata" -> GetDateRangeMetadataReplies
    [] name = "get_journal_analysis" -> GetAnalysisDataReplies
    [] name = "get_journal_entry" -> GetJournalEntryReplies
    [] OTHER -> GetChildrenReplies

(* A lookup in the full tool list, whatever the registry was built with. *)
HasTool_ignoringOptions(registered, name) == name \in Range(GetToolDefinitions("true"))

(* this.tools.get(name) finds a tool. *)
HasTool(registered, name) == name \in Range(registered)

(* A registry that resolves the session before it looks the tool up. *)
RegistryStart_sessionFirst(m, t, registered, sessionId, name, args) ==
  LET g == GetSessionCall(m, sessionId, t) IN
  IF g.err # NoError
  THEN Threw(g.store, g.err)
  ELSE IF ~HasTool(registered, name)
  THEN Threw(g.store, ErrToolNotFound(name))
  ELSE HandlerStart(g.store, t, sessionId, name, args)

(* ToolRegistry.executeTool up to the handler's first suspension. *)
RegistryStart(m, t, registered, sessionId, name, args) ==
  IF ~HasTool(registered, name)
  THEN Threw(m, ErrToolNotFound(name))
  ELSE LET g == GetSessionCall(m, sessionId, t) IN
       IF g.err # NoError
       THEN Threw(g.store, g.err)
       ELSE HandlerStart(g.store, t, sessionId, name, args)

(* MCPCore.executeTool up to the handler's first suspension. *)
CoreStart(m, t, registered, sessionId, name, args) ==
  IF sessionId = NoSessionId
  THEN Threw(m, ErrNotInitialized)
  ELSE RegistryStart(m, t, registered, sessionId, name, args)

NewVersion == "1.0.1"

(* getPendingUpdateNotification() *)
UpdateNotice(version) ==
  IF Falsy(version) THEN Null
  ELSE "Update: Version " \o version \o " is installed. Restart your MCP client to use the new version."

(* A finalResult whose notice replaces what the handler returned. *)
FinalResult_replaced(value, notice) ==
  IF Falsy(notice) THEN value ELSE Text(notice)

(* finalResult: the notice is appended to a string after an empty line and *)
(* added as the updateNotification property of a copy of an object.        *)
FinalResult(value, notice) ==
  IF Falsy(notice) THEN value
  ELSE IF value.kind = "text" THEN Text(value.text \o "\n\n" \o notice)
  ELSE [f \in DOMAIN value \cup {"updateNotification"} |->
          IF f = "updateNotification" THEN notice ELSE value[f]]

(* { result: finalResult, timing: { duration } } *)
Envelope(value, version, startTime, endTime) ==
  [result |-> FinalResult(value, UpdateNotice(version)),
   timing |-> [duration |-> endTime - startTime]]
NoEnvelope == Envelope(NoValue, Null, 0, 0)

(* ------------------------------ MCPCore ------------------------------- *)
Call(name, childName) ==
  [isNull |-> FALSE, name |-> name, arguments |-> [childName |-> childName]]

(* An element of the array that is null instead of a call object. *)
NullCall == [isNull |-> TRUE, name |-> Undefined, arguments |-> [childName |-> Undefined]]

(* The calls a batch is made of: the tools modelled above, select_child    *)
(* with a missing name and with a name that matches a child of the roster  *)
(* (and none when the roster comes back empty), and a name no tool is      *)
(* registered under.  A call without a childName argument carries          *)
(* undefined, which is what the handler's destructuring reads.  The array  *)
(* may also hold null where a call is expected.                            *)
CallChoices ==
  {Call(SelectChildName, ""), Call(SelectChildName, "child"),
   Call("list_children", Undefined),
   Call("get_date_range_metadata", Undefined),
   Call("get_version_info", Undefined),
   Call("nonExistentTool", Undefined),
   NullCall}

Batches == UNION {[1..n -> CallChoices] : n \in 0..MaxBatch}

(* Calls of a journal tool and of an analysis tool, with their argument    *)
(* given, missing and, for the enumerated one, outside the enumeration.    *)
CallWith(name, arguments) == [isNull |-> FALSE, name |-> name, arguments |-> arguments]
ToolCalls ==
  {CallWith("get_journal_entry", [journalEntryId |-> "journal_entry_1"]),
   CallWith("get_journal_entry", [journalEntryId |-> Undefined]),
   CallWith("get_journal_analysis", [timeRange |-> "last_7_days"]),
   CallWith("get_journal_analysis", [timeRange |-> "invalid_range"]),
   CallWith("get_journal_analysis", [timeRange |-> Undefined])}

ToolBatches == UNION {[1..n -> ToolCalls] : n \in 1..MaxBatch}

(* A call the data service has not answered. *)
NoReply == ApiReply(FALSE, <<>>, Null, NoError)

CallRec(phase, ok, startTime, endTime, childId, error, value, notice, envelope) ==
  [phase |-> phase, ok |-> ok, startTime |-> startTime, endTime |-> endTime,
   childId |-> childId, error |-> error, raised |-> error, value |-> value,
   notice |-> notice, envelope |-> envelope, reply |-> NoReply, childName |-> Null]
NotStarted == CallRec("notStarted", FALSE, 0, 0, Null, NoError, NoValue, Null, NoEnvelope)

(* A catch clause that throws an error of its own around the message. *)
Rethrow_wrapped(error) == "Tool execution failed: " \o error

(* catch (error) { ...; throw error; } in ToolRegistry.executeTool and in  *)
(* MCPCore.executeTool; an error thrown outside the try block is not       *)
(* caught at all.                                                          *)
Rethrow(error) == error

(* A registry that hands the handler's value back without the envelope. *)
Settle_bare(o, version, startTime, t) ==
  CASE o.state = "awaiting" ->
         [CallRec("awaiting", FALSE, startTime, 0, o.childId, NoError, NoValue, Null,
                  NoEnvelope)
            EXCEPT !.childName = o.childName]
    [] o.state = "returned" ->
         CallRec("settled", TRUE, startTime, t, Null, NoError, o.value,
                 UpdateNotice(version), [result |-> o.value])
    [] o.state = "threw" ->
         [CallRec("settled", FALSE, 0, 0, Null, Rethrow(o.error), NoValue, Null, NoEnvelope)
            EXCEPT !.raised = o.error]

(* The call record for an outcome o of a call whose handler was invoked at *)
(* startTime, seen at time t under pending update version: value is what   *)
(* the handler returned, notice what getPendingUpdateNotification() gave,  *)
(* envelope what executeTool returns; raised is the message of the error   *)
(* that was thrown, error the message of the one that reaches the caller.  *)
Settle(o, version, startTime, t) ==
  CASE o.state = "awaiting" ->
         [CallRec("awaiting", FALSE, startTime, 0, o.childId, NoError, NoValue, Null,
                  NoEnvelope)
            EXCEPT !.childName = o.childName]
    [] o.state = "returned" ->
         CallRec("settled", TRUE, startTime, t, Null, NoError, o.value,
                 UpdateNotice(version), Envelope(o.value, version, startTime, t))
    [] o.state = "threw" ->
         [CallRec("settled", FALSE, 0, 0, Null, Rethrow(o.error), NoValue, Null, NoEnvelope)
            EXCEPT !.raised = o.error]

(* initializeWithUserContext(userContext) *)
InitializeWithUserContext ==
  \E userId \in Users, r \in 1..MaxRand :
    LET sessionId == FormatSessionId(now, r) IN
    /\ coreSessionId = NoSessionId
    /\ sessions' = MapSet(sessions, sessionId, NewSession(sessionId, userId, now))
    /\ coreSessionId' = sessionId
    /\ UNCHANGED <<now, last, allowChildSwitching, tools, condensation, transformation, pendingUpdateVersion, batchVars>>

(* MCPCore.setSelectedChild(childId, childName), by which the host selects *)
(* a child of the roster outside of any batch.                             *)
CoreSetSelectedChild ==
  \E i \in 1..Len(Roster) :
    /\ coreSessionId # NoSessionId
    /\ batchStatus # "running"
    /\ sessions' = SetSelectedChildCall(sessions, coreSessionId,
                                       Roster[i].childId, Roster[i].fullName, now).store
    /\ UNCHANGED <<now, last, coreVars>>

(* More than a day passes. *)
TickOverADay ==
  /\ now + DayMs + 1 <= MaxDays * DayMs + MaxMs
  /\ now' = now + DayMs + 1
  /\ UNCHANGED <<sessions, last, coreVars>>

(* cleanupOldSessions(), invoked by the host between batches. *)
CoreCleanupOldSessions ==
  /\ batchStatus # "running"
  /\ sessions' = CleanupCall(sessions, now)
  /\ UNCHANGED <<now, last, coreVars>>

(* The auto-updater the registry was given finishes installing a new      *)
(* version: this.pendingUpdateVersion = newVersion.                        *)
UpdateInstalled ==
  /\ pendingUpdateVersion = Null
  /\ pendingUpdateVersion' = NewVersion
  /\ UNCHANGED <<storeVars, allowChildSwitching, tools, condensation, transformation, coreSessionId, batchVars>>

(* executeTools(toolCalls) with an array: the loop is entered. *)
ExecuteTools ==
  \E calls \in Batches :
    /\ batchStatus # "running"
    /\ invocations < MaxInvocations
    /\ invocations' = invocations + 1
    /\ batchStatus' = "running"
    /\ toolCalls' = calls
    /\ callState' = [n \in 1..Len(calls) |-> NotStarted]
    /\ results' = <<>>
    /\ UNCHANGED <<storeVars, allowChildSwitching, tools, condensation, transformation, pendingUpdateVersion, coreSessionId>>

(* executeTools(toolCalls) with calls of the journal and analysis tools. *)
ExecuteJournalTools ==
  \E calls \in ToolBatches :
    /\ batchStatus # "running"
    /\ invocations < MaxInvocations
    /\ invocations' = invocations + 1
    /\ batchStatus' = "running"
    /\ toolCalls' = calls
    /\ callState' = [n \in 1..Len(calls) |-> NotStarted]
    /\ results' = <<>>
    /\ UNCHANGED <<storeVars, allowChildSwitching, tools, condensation, transformation, pendingUpdateVersion, coreSessionId>>

(* executeTools(toolCalls) with something that is not an array. *)
ExecuteToolsNotArray ==
  /\ batchStatus # "running"
  /\ invocations < MaxInvocations
  /\ invocations' = invocations + 1
  /\ batchStatus' = "rejected"
  /\ toolCalls' = <<>>
  /\ callState' = <<>>
  /\ results' = <<>>
  /\ UNCHANGED <<storeVars, allowChildSwitching, tools, condensation, transformation, pendingUpdateVersion, coreSessionId>>

(* A loop that starts every call without awaiting the one before it. *)
CanStart_fanOut(n) == callState[n].phase = "notStarted"

(* for (const toolCall of toolCalls) { await ... }: iteration n is entered *)
(* once the n - 1 iterations before it have pushed their record.           *)
CanStart(n) == callState[n].phase = "notStarted" /\ n = Len(results) + 1

(* Iteration n calls this.executeTool(toolCall.name, toolCall.arguments),  *)
(* which runs until the handler suspends, returns or throws.               *)
StartCall ==
  \E n \in 1..Len(toolCalls) :
    LET o == CoreStart(sessions, now, tools, coreSessionId,
                       toolCalls[n].name, toolCalls[n].arguments) IN
    /\ batchStatus = "running"
    /\ CanStart(n)
    /\ ~toolCalls[n].isNull
    /\ sessions' = o.store
    /\ callState' = [callState EXCEPT ![n] = Settle(o, pendingUpdateVersion, now, now)]
    /\ UNCHANGED <<now, last, allowChildSwitching, tools, condensation, transformation, pendingUpdateVersion,
                   coreSessionId, invocations, batchStatus, toolCalls, results>>

(* Iteration n on a null element: reading toolCall.name throws a          *)
(* TypeError inside the try block, and the catch clause, which reads       *)
(* toolCall.name for its record, throws it again out of executeTools.      *)
StartNullCall ==
  \E n \in 1..Len(toolCalls) :
    /\ batchStatus = "running"
    /\ CanStart(n)
    /\ toolCalls[n].isNull
    /\ batchStatus' = "thrown"
    /\ UNCHANGED <<storeVars, allowChildSwitching, tools, condensation, transformation, pendingUpdateVersion,
                   coreSessionId, invocations, toolCalls, callState, results>>

(* The data-service call a handler awaits settles and the handler runs to  *)
(* its end.                                                                *)
ApiReturn ==
  \E n \in 1..Len(toolCalls) :
    \E reply \in RepliesFor(toolCalls[n].name) :
      LET o == HandlerResume(sessions, now, coreSessionId, toolCalls[n].name,
                             toolCalls[n].arguments, callState[n].childName, reply) IN
      /\ batchStatus = "running"
      /\ callState[n].phase = "awaiting"
      /\ sessions' = o.store
      /\ callState' = [callState EXCEPT
                         ![n] = [Settle(o, pendingUpdateVersion, callState[n].startTime, now)
                                   EXCEPT !.reply = reply]]
      /\ UNCHANGED <<now, last, allowChildSwitching, tools, condensation, transformation, pendingUpdateVersion,
                     coreSessionId, invocations, batchStatus, toolCalls, results>>

(* A catch clause that lets the store's errors through. *)
CatchesError_exceptSession(error) == error # ErrSessionNotFound

(* catch (error) { ... } of the loop body catches whatever is thrown. *)
CatchesError(error) == TRUE

(* A loop body without its catch branch. *)
BatchRecord_alwaysSuccess(call, cs) ==
  [toolName |-> call.name, success |-> TRUE, result |-> cs.envelope]

(* The record the loop body pushes for a settled call. *)
BatchRecord(call, cs) ==
  IF cs.ok
  THEN [toolName |-> call.name, success |-> TRUE, result |-> cs.envelope]
  ELSE [toolName |-> call.name, success |-> FALSE, error |-> cs.error]

(* The awaited executeTool settles: the loop body pushes the call's record *)
(* or, for an error its catch clause does not catch, executeTools throws.  *)
RecordCall ==
  \E n \in 1..Len(toolCalls) :
    /\ batchStatus = "running"
    /\ callState[n].phase = "settled"
    /\ IF callState[n].ok \/ CatchesError(callState[n].error)
       THEN /\ results' = Append(results, BatchRecord(toolCalls[n], callState[n]))
            /\ callState' = [callState EXCEPT ![n].phase = "recorded"]
            /\ UNCHANGED batchStatus
       ELSE /\ batchStatus' = "thrown"
            /\ UNCHANGED <<results, callState>>
    /\ UNCHANGED <<storeVars, allowChildSwitching, tools, condensation, transformation, pendingUpdateVersion,
                   coreSessionId, invocations, toolCalls>>

(* return results *)
ReturnBatch ==
  /\ batchStatus = "running"
  /\ Len(results) = Len(toolCalls)
  /\ batchStatus' = "returned"
  /\ UNCHANGED <<storeVars, allowChildSwitching, tools, condensation, transformation, pendingUpdateVersion,
                 coreSessionId, invocations, toolCalls, callState, results>>

Next ==
  \/ InitializeWithUserContext
  \/ CoreSetSelectedChild
  \/ ExecuteTools
  \/ ExecuteToolsNotArray
  \/ StartCall
  \/ StartNullCall
  \/ ApiReturn
  \/ RecordCall
  \/ ReturnBatch

Spec == Init /\ [][Next]_vars

(* The core over a longer time: more than a day may pass between two       *)
(* steps, the host may sweep the store between batches, and an update may  *)
(* finish installing.                                                      *)
NextAging ==
  \/ Next
  \/ TickOverADay
  \/ CoreCleanupOldSessions
  \/ UpdateInstalled

SpecAging == InitStore /\ [][NextAging]_vars

(* Calls of two tools that work on the selected child. *)
SubjectCalls ==
  {Call("get_date_range_metadata", Undefined),
   CallWith("get_journal_analysis", [timeRange |-> "last_7_days"])}

SubjectBatches == UNION {[1..n -> SubjectCalls] : n \in 1..MaxBatch}

(* executeTools(toolCalls) with calls that work on the selected child. *)
ExecuteSubjectTools ==
  \E calls \in SubjectBatches :
    /\ batchStatus # "running"
    /\ invocations < MaxInvocations
    /\ invocations' = invocations + 1
    /\ batchStatus' = "running"
    /\ toolCalls' = calls
    /\ callState' = [n \in 1..Len(calls) |-> NotStarted]
    /\ results' = <<>>
    /\ UNCHANGED <<storeVars, allowChildSwitching, tools, condensation, transformation, pendingUpdateVersion,
                   coreSessionId>>

(* MCPCore.setSelectedChild called by the host while a call of the batch   *)
(* is suspended on the data service.                                       *)
SetSelectedChildWhileAwaiting ==
  \E i \in 1..Len(Roster) :
    /\ coreSessionId # NoSessionId
    /\ batchStatus = "running"
    /\ \E n \in DOMAIN callState : callState[n].phase = "awaiting"
    /\ sessions' = SetSelectedChildCall(sessions, coreSessionId,
                                       Roster[i].childId, Roster[i].fullName, now).store
    /\ UNCHANGED <<now, last, coreVars>>

(* The core with the host selecting a child between the steps of a batch. *)
NextOverlap ==
  \/ InitializeWithUserContext
  \/ CoreSetSelectedChild
  \/ SetSelectedChildWhileAwaiting
  \/ ExecuteSubjectTools
  \/ StartCall
  \/ ApiReturn
  \/ RecordCall
  \/ ReturnBatch

SpecOverlap == InitStore /\ [][NextOverlap]_vars

(* The core running batches of the journal and analysis tools. *)
NextJournal ==
  \/ InitializeWithUserContext
  \/ CoreSetSelectedChild
  \/ ExecuteJournalTools
  \/ StartCall
  \/ ApiReturn
  \/ RecordCall
  \/ ReturnBatch

SpecJournal == InitStore /\ [][NextJournal]_vars

(* ---------------------- batch and registry properties ----------------- *)
Recorded == {n \in DOMAIN callState : callState[n].phase = "recorded"}
InFlight == {n \in DOMAIN callState : callState[n].phase \in {"awaiting", "settled"}}

(* The downgrade of C1: the record of a call that failed holds its error,  *)
(* and a batch that returned has executed and recorded every call.         *)
Downgraded ==
  /\ \A n \in Recorded :
       ~callState[n].ok =>
          results[n] = [toolName |-> toolCalls[n].name, success |-> FALSE,
                        error |-> callState[n].error]
  /\ batchStatus = "returned" => Recorded = 1..Len(toolCalls)

C2_StrictlySequential ==
  /\ Cardinality(InFlight) <= 1
  /\ \A n \in DOMAIN callState :
       (n > 1 /\ callState[n].phase # "notStarted") => callState[n - 1].phase = "recorded"

(* The second call is suspended on the data service after the first call,  *)
(* which also was, has been recorded.                                      *)
C2_Witness ==
  /\ batchStatus = "running"
  /\ Len(toolCalls) = 2
  /\ toolCalls[1].name = "list_children"
  /\ callState[1].phase = "recorded"
  /\ callState[2].phase = "awaiting"

(* C3: a returned batch holds exactly one record per call, in call order:  *)
(* record i carries the name of call i and either success = true with the  *)
(* call's result or success = false with the call's error message.         *)
C3_OneRecordPerCall ==
  batchStatus = "returned" =>
     /\ Len(results) = Len(toolCalls)
     /\ \A i \in 1..Len(toolCalls) :
          /\ results[i].toolName = toolCalls[i].name
          /\ results[i].success = callState[i].ok
          /\ IF results[i].success
             THEN /\ DOMAIN results[i] = {"toolName", "success", "result"}
                  /\ results[i].result = callState[i].envelope
             ELSE /\ DOMAIN results[i] = {"toolName", "success", "error"}
                  /\ results[i].error = callState[i].error

(* A returned batch of an unknown tool name followed by a call that        *)
(* succeeded.                                                              *)
C3_Witness ==
  /\ batchStatus = "returned"
  /\ Len(results) = 2
  /\ results[1] = [toolName |-> "nonExistentTool", success |-> FALSE,
                   error |-> "Tool not found: nonExistentTool"]
  /\ results[2].success = TRUE

(* C4: select_child is registered exactly when allowChildSwitching is not  *)
(* false; every other tool is registered under both settings, so the tool  *)
(* list with switching enabled is one longer than with switching disabled. *)
C4_SelectChildRegistration ==
  LET disabled == GetToolDefinitions("false") IN
  /\ (SelectChildName \in Range(tools)) <=> (allowChildSwitching # "false")
  /\ Range(tools) \ {SelectChildName} = Range(disabled)
  /\ Len(tools) = Len(disabled) + (IF allowChildSwitching # "false" THEN 1 ELSE 0)
  /\ Len(disabled) = 17

(* Under a registry built with allowChildSwitching = false, a select_child *)
(* call of a batch was answered "Tool not found".                          *)
C4_Witness ==
  /\ allowChildSwitching = "false"
  /\ batchStatus = "returned"
  /\ \E i \in 1..Len(results) :
       results[i] = [toolName |-> SelectChildName, success |-> FALSE,
                     error |-> "Tool not found: select_child"]

(* The selection of a session: its selected child id and name. *)
Selection(m, k) == <<m[k].selectedChildId, m[k].selectedChildName>>

(* C5: with allowChildSwitching = false, no step of executeTool or         *)
(* executeTools changes the selected child id or name of any session.      *)
C5_EmbeddedSelectionFixed ==
  [][(allowChildSwitching = "false" /\ batchVars' # batchVars) =>
        \A k \in DOMAIN sessions :
           k \in DOMAIN sessions' /\ Selection(sessions', k) = Selection(sessions, k)]_vars

(* In embedded mode, with a child selected by the host, a batch has tried  *)
(* select_child and has run a tool on the session.                         *)
C5_Witness ==
  /\ allowChildSwitching = "false"
  /\ batchStatus = "returned"
  /\ coreSessionId \in DOMAIN sessions
  /\ sessions[coreSessionId].selectedChildId = "c2"
  /\ Len(results) = 2
  /\ results[1].toolName = SelectChildName
  /\ results[2].toolName = "list_children" /\ results[2].success

(* --------------------- session store properties ----------------------- *)
(* The step just taken was a call of the store operation op (every call    *)
(* records itself in last; only Tick moves the clock).                     *)
StepOf(op) == last'.op = op /\ now' = now

(* C6: getSelectedChild on an existing session fails with "No child        *)
(* selected" exactly when the session's selectedChildId is null, and       *)
(* otherwise returns the stored child id and child name.                   *)
C6_FailsExactlyWhenNull ==
  (last.op = "getSelectedChild" /\ last.sid \in DOMAIN sessions) =>
     /\ (last.err = ErrNoChildSelected) <=> (sessions[last.sid].selectedChildId = Null)
     /\ last.ok <=> (last.err # ErrNoChildSelected)
     /\ last.ok => last.retChild = [childId |-> sessions[last.sid].selectedChildId,
                                    childName |-> sessions[last.sid].selectedChildName]

(* C6 (amended): getSelectedChild on an existing session fails with "No    *)
(* child selected" exactly when the stored selectedChildId is falsy (null, *)
(* undefined or the empty string), and otherwise returns the child id and  *)
(* child name currently stored in the session.                             *)
C6_FailsExactlyWhenFalsy ==
  (last.op = "getSelectedChild" /\ last.sid \in DOMAIN sessions) =>
     /\ (last.err = ErrNoChildSelected) <=> (sessions[last.sid].selectedChildId \in {Null, "", "undefined"})
     /\ last.ok <=> (last.err # ErrNoChildSelected)
     /\ last.ok => last.retChild = [childId |-> sessions[last.sid].selectedChildId,
                                    childName |-> sessions[last.sid].selectedChildName]

(* createSession('u1'), setSelectedChild(id, 'c1', 'Child One'), then      *)
(* getSelectedChild(id) has returned {c1, Child One}.                      *)
C6_Witness ==
  /\ last.op = "getSelectedChild"
  /\ last.ok
  /\ last.sid \in DOMAIN sessions
  /\ last.retChild = [childId |-> "c1", childName |-> "Child One"]

(* C7: in every session the selected child name is non-null only if the    *)
(* selected child id is non-null.                                          *)
C7_NameOnlyWithId ==
  \A k \in DOMAIN sessions :
    sessions[k].selectedChildName # Null => sessions[k].selectedChildId # Null

(* C8: the identifier stored inside each session equals the key the store  *)
(* holds it under, and the value createSession returned is such a key.     *)
C8_IdentifierImmutable ==
  /\ \A k \in DOMAIN sessions : sessions[k].sessionId = k
  /\ last.op = "createSession" =>
        /\ last.retId \in DOMAIN sessions
        /\ sessions[last.retId].sessionId = last.retId

(* C9: every createSession call returns an identifier that no session in   *)
(* the store already has, so it never replaces a stored session.           *)
C9_FreshIdentifier ==
  [][StepOf("createSession") => last'.retId \notin DOMAIN sessions]_vars

(* C10: getSession, updateSession and getSelectedChild called with an id   *)
(* that is not in the store fail with "Session not found" and leave the    *)
(* store exactly as it was.                                                *)
C10_UnknownIdFails ==
  [][\A op \in {"getSession", "updateSession", "getSelectedChild"} :
        (StepOf(op) /\ last'.sid \notin DOMAIN sessions) =>
           /\ ~last'.ok
           /\ last'.err = ErrSessionNotFound
           /\ sessions' = sessions]_vars

(* A call on the unknown id has failed while the store holds a session. *)
C10_Witness ==
  /\ last.op \in {"getSession", "updateSession", "getSelectedChild"}
  /\ last.sid \notin DOMAIN sessions
  /\ last.err = ErrSessionNotFound
  /\ DOMAIN sessions # {}

(* C11: every call that resolves a stored session (getSession and the      *)
(* calls that go through it) sets that session's lastActivity to the       *)
(* current time, lastActivity changes in no other way, and a sweep run     *)
(* less than 24 hours after a session's lastActivity keeps that session    *)
(* as it is.                                                               *)
C11_SlidingExpiration ==
  [][/\ \A op \in {"getSession", "updateSession", "setSelectedChild", "getSelectedChild"} :
          (StepOf(op) /\ last'.sid \in DOMAIN sessions) =>
             /\ last'.sid \in DOMAIN sessions'
             /\ sessions'[last'.sid].lastActivity = now
     /\ \A k \in DOMAIN sessions \cap DOMAIN sessions' :
          sessions'[k].lastActivity # sessions[k].lastActivity =>
             sessions'[k].lastActivity = now
     /\ StepOf("cleanupOldSessions") =>
          \A k \in DOMAIN sessions :
             now - sessions[k].lastActivity < DayMs =>
                (k \in DOMAIN sessions' /\ sessions'[k] = sessions[k])]_vars

(* A session created more than a day ago and read less than a day ago has  *)
(* survived a sweep.                                                       *)
C11_Witness ==
  /\ last.op = "cleanupOldSessions"
  /\ \E k \in DOMAIN sessions :
       /\ now - sessions[k].createdAt > DayMs
       /\ sessions[k].lastActivity > sessions[k].createdAt
       /\ now - sessions[k].lastActivity < DayMs

(* C12 as stated: after a sweep called with maxAgeHours, no session whose   *)
(* lastActivity is earlier than now minus maxAgeHours hours remains.       *)
C12_SweepByArgument ==
  [][StepOf("cleanupOldSessions") =>
        \A k \in DOMAIN sessions' :
           ~(sessions'[k].lastActivity < now - last'.maxAgeHours * HourMs)]_vars

(* C12, amended: the sweep ignores its argument: it removes exactly the    *)
(* sessions whose lastActivity is earlier than now minus 24 hours and      *)
(* leaves every other session as it is.                                    *)
C12_SweepFixedAge ==
  [][StepOf("cleanupOldSessions") =>
        /\ DOMAIN sessions' \subseteq DOMAIN sessions
        /\ \A k \in DOMAIN sessions :
             IF sessions[k].lastActivity < now - DayMs
             THEN k \notin DOMAIN sessions'
             ELSE k \in DOMAIN sessions' /\ sessions'[k] = sessions[k]
        /\ last'.removed = DOMAIN sessions \ DOMAIN sessions']_vars

(* A sweep called with 12 hours has evicted a session. *)
C12_Witness ==
  /\ last.op = "cleanupOldSessions"
  /\ last.maxAgeHours = 12
  /\ last.removed # {}

(* The frame of an updateSession call on a stored session: the store keeps *)
(* its keys, every other session is unchanged, and the fields that were    *)
(* not provided keep their values, lastActivity apart.                     *)
UpdateFrame(k, u) ==
  /\ DOMAIN sessions' = DOMAIN sessions
  /\ \A j \in DOMAIN sessions \ {k} : sessions'[j] = sessions[j]
  /\ DOMAIN sessions'[k] = DOMAIN sessions[k] \cup DOMAIN u
  /\ \A f \in DOMAIN sessions[k] \ (DOMAIN u \cup {"lastActivity"}) :
       sessions'[k][f] = sessions[k][f]

(* C13 as stated: updateSession on a stored session sets every provided    *)
(* field to the provided value, refreshes lastActivity to now when it was  *)
(* not provided, and changes nothing else in the store.                    *)
C13_SetsProvidedFields ==
  [][(StepOf("updateSession") /\ last'.sid \in DOMAIN sessions) =>
        /\ UpdateFrame(last'.sid, last'.updates)
        /\ \A f \in DOMAIN last'.updates : sessions'[last'.sid][f] = last'.updates[f]
        /\ "lastActivity" \notin DOMAIN last'.updates =>
              sessions'[last'.sid].lastActivity = now]_vars

(* C13, amended: updateSession on a stored session sets every provided     *)
(* field other than lastActivity to the provided value, sets lastActivity  *)
(* to now whether or not it was provided, and changes nothing else in the  *)
(* store.                                                                  *)
C13_MergeThenRefresh ==
  [][(StepOf("updateSession") /\ last'.sid \in DOMAIN sessions) =>
        /\ UpdateFrame(last'.sid, last'.updates)
        /\ \A f \in DOMAIN last'.updates \ {"lastActivity"} :
             sessions'[last'.sid][f] = last'.updates[f]
        /\ sessions'[last'.sid].lastActivity = now]_vars

(* With two sessions stored, one was updated with a lastActivity and the   *)
(* other one has a child selected.                                         *)
C13_Witness ==
  /\ last.op = "updateSession"
  /\ last.ok
  /\ "lastActivity" \in DOMAIN last.updates
  /\ \E j \in DOMAIN sessions : j # last.sid /\ sessions[j].selectedChildId = "c1"

(* ------------------------- registry properties ------------------------ *)
(* The calls of the batch whose executeTool has returned. *)
Succeeded == {n \in DOMAIN callState : callState[n].phase \in {"settled", "recorded"}
                                        /\ callState[n].ok}

(* C14: what a successful executeTool returns is {result, timing:          *)
(* {duration}}, where duration is the time from the handler's invocation   *)
(* to its return and is not negative, and where result is the very value   *)
(* the handler returned when no update notice is pending.                  *)
C14_Envelope ==
  \A n \in Succeeded :
    LET e == callState[n].envelope IN
    /\ DOMAIN e = {"result", "timing"}
    /\ DOMAIN e.timing = {"duration"}
    /\ e.timing.duration = callState[n].endTime - callState[n].startTime
    /\ e.timing.duration >= 0
    /\ callState[n].notice = Null => e.result = callState[n].value

(* A call that was suspended on the data service for more than a day has   *)
(* returned its envelope.                                                  *)
C14_Witness ==
  \E n \in Succeeded :
    /\ toolCalls[n].name = "list_children"
    /\ callState[n].envelope.timing.duration > DayMs
    /\ callState[n].envelope.result = callState[n].value

(* C15: when an update notice is pending, a string result becomes the      *)
(* original string, an empty line and the notice; an object result stays   *)
(* an object, keeps every one of its fields with its value and gains the   *)
(* one field updateNotification; the timing is as without a notice.        *)
C15_NoticeAppended ==
  \A n \in Succeeded :
    LET v == callState[n].value
        r == callState[n].envelope.result
        notice == callState[n].notice IN
    notice # Null =>
       /\ notice = UpdateNotice(NewVersion)
       /\ r.kind = v.kind
       /\ IF v.kind = "text"
          THEN /\ DOMAIN r = DOMAIN v
               /\ r.text = v.text \o "\n\n" \o notice
          ELSE /\ "updateNotification" \notin DOMAIN v
               /\ DOMAIN r = DOMAIN v \cup {"updateNotification"}
               /\ \A f \in DOMAIN v : r[f] = v[f]
               /\ r.updateNotification = notice
       /\ callState[n].envelope.timing.duration
             = callState[n].endTime - callState[n].startTime

(* With an update pending, a batch has returned the string of select_child *)
(* and the object of list_children, each with the notice.                  *)
C15_Witness ==
  /\ batchStatus = "returned"
  /\ Len(results) = 2
  /\ toolCalls[1].name = SelectChildName
  /\ toolCalls[2].name = "list_children"
  /\ results[1].success /\ results[2].success
  /\ callState[1].notice # Null /\ callState[2].notice # Null
  /\ results[1].result.result.kind = "text"
  /\ results[2].result.result.updateNotification = callState[2].notice

(* The calls of the batch whose executeTool has thrown. *)
Failed == {n \in DOMAIN callState : callState[n].phase \in {"settled", "recorded"}
                                     /\ ~callState[n].ok}

(* C16: the error that reaches the caller of executeTool carries the       *)
(* message of the error that session resolution or the handler raised,     *)
(* and the batch record of the call holds that same message.               *)
C16_NoErrorTranslation ==
  \A n \in Failed :
    /\ callState[n].raised # NoError
    /\ callState[n].error = callState[n].raised
    /\ callState[n].phase = "recorded" => results[n].error = callState[n].raised

(* A failure of the data service inside a handler and a failure of the    *)
(* session store have reached the caller with the messages they were       *)
(* raised with.                                                            *)
C16_Witness ==
  /\ Len(results) = 2
  /\ callState[1].raised = ErrListChildren(ApiNetworkError)
  /\ results[1].error = ErrListChildren(ApiNetworkError)
  /\ callState[2].raised = ErrNoChildSelected
  /\ results[2].error = ErrNoChildSelected

(* ------------------------- handler properties ------------------------- *)

(* A call whose required or enumerated argument is missing or malformed,   *)
(* by the inputSchema of its tool.                                         *)
ArgsInvalid(call) ==
  /\ ~call.isNull
  /\ CASE call.name = "get_journal_entry" -> Falsy(call.arguments.journalEntryId)
       [] call.name = "get_journal_analysis" -> call.arguments.timeRange \notin ValidTimeRanges
       [] OTHER -> FALSE

ValidationErrors == {ErrChildNameRequired, ErrTimeRangeRequired, ErrInvalidTimeRange}

(* The calls that got as far as their handler. *)
HandlerReached == {n \in DOMAIN callState :
                     /\ callState[n].phase # "notStarted"
                     /\ callState[n].raised \notin {ErrNotInitialized, ErrSessionNotFound}}

(* C17: a call with a missing or malformed argument never gets to the data *)
(* service, and fails with a validation error, also when no child is       *)
(* selected.                                                               *)
C17_ValidationFirst ==
  \A n \in HandlerReached :
    ArgsInvalid(toolCalls[n]) =>
      /\ callState[n].phase # "awaiting"
      /\ ~callState[n].ok
      /\ callState[n].raised \in ValidationErrors

(* The operations that work on the selected child. *)
SubjectScoped == {"get_date_range_metadata", "get_journal_analysis", "get_journal_entry"}

(* The data service had nothing to return: a null payload, or not-found    *)
(* where the client turns it into one.                                     *)
DataAbsent(name, reply) ==
  IF name = "get_date_range_metadata"
  THEN reply.ok /\ reply.data = Null
  ELSE NullOnNotFound(reply).ok /\ NullOnNotFound(reply).data = Null

(* The settled calls of subject-scoped tools the data service answered     *)
(* with nothing.                                                           *)
AnsweredWithNothing ==
  {n \in DOMAIN callState :
     /\ callState[n].phase \in {"settled", "recorded"}
     /\ toolCalls[n].name \in SubjectScoped
     /\ DataAbsent(toolCalls[n].name, callState[n].reply)}

(* C18: a call of a subject-scoped tool that the data service answers with *)
(* nothing returns an object that explains it, and does not throw.         *)
C18_DataAbsenceSoft ==
  \A n \in AnsweredWithNothing :
    /\ callState[n].ok
    /\ callState[n].raised = NoError
    /\ callState[n].value.kind = "object"

(* The settled calls whose request the data service refused with 403. *)
Forbidden == {n \in DOMAIN callState :
                /\ callState[n].phase \in {"settled", "recorded"}
                /\ callState[n].reply.status = 403}

AccessDenied == "Access denied: "

(* C19 as claimed: a call the data service refuses with 403 fails, and the *)
(* batch records success = false for it.                                   *)
C19_ForbiddenFails ==
  \A n \in Forbidden :
    /\ ~callState[n].ok
    /\ callState[n].raised # NoError
    /\ callState[n].phase = "recorded" => ~results[n].success

(* C19: on a 403, get_journal_analysis returns an object with the message, *)
(* hasData false and permissionError true, in a success envelope that the  *)
(* batch records with success = true; get_journal_entry, which has no      *)
(* branch for 403, throws the wrapped error and is recorded with           *)
(* success = false.                                                        *)
C19_ForbiddenIsSoftForAnalysis ==
  \A n \in Forbidden :
    IF toolCalls[n].name = "get_journal_analysis"
    THEN /\ callState[n].ok
         /\ callState[n].raised = NoError
         /\ callState[n].value.permissionError = TRUE
         /\ callState[n].value.hasData = FALSE
         /\ SubSeq(callState[n].value.message, 1, Len(AccessDenied)) = AccessDenied
         /\ callState[n].envelope.result = FinalResult(callState[n].value, callState[n].notice)
         /\ callState[n].phase = "recorded" =>
              /\ results[n].success
              /\ results[n].result = callState[n].envelope
    ELSE /\ toolCalls[n].name = "get_journal_entry"
         /\ ~callState[n].ok
         /\ callState[n].raised = ErrJournalEntry(ApiFailure(403).msg)
         /\ callState[n].phase = "recorded" =>
              /\ ~results[n].success
              /\ results[n].error = callState[n].raised

(* Both tools were refused in one batch, and the batch returned. *)
C19_Witness ==
  /\ batchStatus = "returned"
  /\ \E i, j \in Forbidden :
       /\ toolCalls[i].name = "get_journal_analysis"
       /\ results[i].success
       /\ toolCalls[j].name = "get_journal_entry"
       /\ ~results[j].success

(* ------------------------- condensation engine ------------------------ *)

(* CONDENSATION_CONFIG *)
ArrayTruncation ==
  [dailyBehaviorScores |-> 3, contributingUsers |-> 2, village |-> 2,
   topCaregivers |-> 2, bottomCaregivers |-> 2, enhancers |-> 2, triggers |-> 2,
   medicationChanges |-> 2, journalEntries |-> 3, hashtags |-> 3, keyMoments |-> 2,
   hashtagsByType |-> 3, behaviorGoals |-> 3, medications |-> 3]
DefaultArrayLimit == 3
MinSizeToTruncate == 4

(* JSON values: a scalar, an array, an object. *)
Scalar(v) == [t |-> "val", v |-> v]
Arr(items) == [t |-> "arr", items |-> items]
Obj(fields) == [t |-> "obj", fields |-> fields]

(* A key that is no own property of the table but is found on its          *)
(* prototype: arrayTruncation[key] is then a function, not a number.       *)
PrototypeKeys == {"constructor"}
NotANumber == 0 - 1

(* CONDENSATION_CONFIG.arrayTruncation[key] || defaultArrayLimit *)
LimitOf(key) ==
  IF key \in DOMAIN ArrayTruncation
  THEN IF ArrayTruncation[key] # 0 THEN ArrayTruncation[key] ELSE DefaultArrayLimit
  ELSE IF key \in PrototypeKeys THEN NotANumber ELSE DefaultArrayLimit

(* The element condenseArray pushes after the kept ones. *)
Marker(remainingCount, length, limit) ==
  Obj([_truncated |-> remainingCount \o " more items (" \o ToString(length) \o " total)",
       _note |-> "Original array had " \o ToString(length) \o " items, showing first "
                 \o limit])

RECURSIVE condenseArray(_, _)
RECURSIVE condenseObject(_, _)

(* arr.slice(0, n).map(item => condenseObject(item)) *)
CondenseFirst(arr, n) == [i \in 1..n |-> condenseObject(arr.items[i], "")]

(* A truncation that does not look at the floor. *)
condenseArray_noFloor(arr, key) ==
  LET limit == LimitOf(key) IN
  IF limit # NotANumber /\ Len(arr.items) <= limit
  THEN Arr(CondenseFirst(arr, Len(arr.items)))
  ELSE IF limit = NotANumber
  THEN Arr(<<Marker("NaN", Len(arr.items), "function Object() { [native code] }")>>)
  ELSE Arr(Append(CondenseFirst(arr, limit),
                  Marker(ToString(Len(arr.items) - limit), Len(arr.items),
                         ToString(limit))))

condenseArray(arr, key) ==
  IF Len(arr.items) < MinSizeToTruncate
  THEN Arr(CondenseFirst(arr, Len(arr.items)))
  ELSE LET limit == LimitOf(key) IN
       IF limit # NotANumber /\ Len(arr.items) <= limit
       THEN Arr(CondenseFirst(arr, Len(arr.items)))
       ELSE IF limit = NotANumber
       THEN Arr(<<Marker("NaN", Len(arr.items), "function Object() { [native code] }")>>)
       ELSE Arr(Append(CondenseFirst(arr, limit),
                       Marker(ToString(Len(arr.items) - limit), Len(arr.items),
                              ToString(limit))))

condenseObject(obj, parentKey) ==
  IF obj.t = "arr"
  THEN condenseArray(obj, parentKey)
  ELSE IF obj.t = "obj"
  THEN Obj([k \in DOMAIN obj.fields |-> condenseObject(obj.fields[k], k)])
  ELSE obj

(* The arrays and the keys condenseObject is applied to. *)
MaxItems == 5
Elements ==
  {Scalar(1), Scalar(2),
   Arr(<<Scalar(1), Scalar(2), Scalar(1), Scalar(2)>>),
   Obj([keyMoments |-> Arr(<<Scalar(1), Scalar(2), Scalar(1), Scalar(2)>>)])}
Arrays == {Arr(items) : items \in UNION {[1..n -> Elements] : n \in 0..MaxItems}}
Keys == {"keyMoments", "hashtags", "notInTheTable", "", "constructor"}

InitCondense ==
  /\ sessions = <<>>
  /\ now = 0
  /\ last = Obs("init", NoSessionId, TRUE, NoError, NoSessionId, NoChild)
  /\ allowChildSwitching = Undefined
  /\ tools = GetToolDefinitions(allowChildSwitching)
  /\ pendingUpdateVersion = Null
  /\ coreSessionId = NoSessionId
  /\ invocations = 0
  /\ batchStatus = "idle"
  /\ toolCalls = <<>>
  /\ callState = <<>>
  /\ results = <<>>
  /\ transformation = NotTransforming
  /\ condensation \in {[phase |-> "called", arr |-> a, key |-> k, out |-> a] :
                         a \in Arrays, k \in Keys}

(* condenseObject(arr, key) *)
CondenseObject ==
  /\ condensation.phase = "called"
  /\ condensation' = [condensation EXCEPT
                        !.phase = "returned",
                        !.out = condenseObject(condensation.arr, condensation.key)]
  /\ UNCHANGED <<storeVars, allowChildSwitching, tools, transformation,
                 pendingUpdateVersion, coreSessionId, batchVars>>

NextCondense == CondenseObject

SpecCondense == InitCondense /\ [][NextCondense]_vars

(* The calls of condenseObject that have returned. *)
Condensed == condensation.phase = "returned"

(* C20 (its case): an array is condensed under a key whose limit is at or  *)
(* above the truncation floor.                                             *)
C20_LimitAtOrAboveFloor ==
  /\ Condensed
  /\ LimitOf(condensation.key) >= MinSizeToTruncate
  /\ Len(condensation.arr.items) > LimitOf(condensation.key)

(* C20: an array of length L > K under a key with K at or above the floor  *)
(* comes out as its first K elements, condensed, and one marker that       *)
(* counts L - K elided of L.                                               *)
C20_TruncatedToLimit ==
  C20_LimitAtOrAboveFloor =>
    LET L == Len(condensation.arr.items)
        K == LimitOf(condensation.key)
        out == condensation.out.items IN
    /\ Len(out) = K + 1
    /\ \A i \in 1..K : out[i] = condenseObject(condensation.arr.items[i], "")
    /\ out[K + 1] = Marker(ToString(L - K), L, ToString(K))

(* An element condenseArray pushes, not one of the input. *)
IsMarker(e) == e.t = "obj" /\ "_truncated" \in DOMAIN e.fields

(* The result has the length of the input, each element condensed in its   *)
(* place, and no marker.                                                   *)
KeptWhole ==
  LET items == condensation.arr.items
      out == condensation.out.items IN
  /\ Len(out) = Len(items)
  /\ \A i \in 1..Len(items) :
       /\ out[i] = condenseObject(items[i], "")
       /\ out[i].t = items[i].t
       /\ ~IsMarker(out[i])

(* C21 as claimed: an array of length at most the floor, or at most the    *)
(* limit of its key, is kept whole.                                        *)
C21_KeptUpToFloor ==
  (/\ Condensed
   /\ \/ Len(condensation.arr.items) <= MinSizeToTruncate
      \/ /\ LimitOf(condensation.key) # NotANumber
         /\ Len(condensation.arr.items) <= LimitOf(condensation.key))
  => KeptWhole

(* C21: an array of length below the floor, or at most the limit of its    *)
(* key, is kept whole: same length, same order, no marker.                 *)
C21_KeptBelowFloor ==
  (/\ Condensed
   /\ \/ Len(condensation.arr.items) < MinSizeToTruncate
      \/ /\ LimitOf(condensation.key) # NotANumber
         /\ Len(condensation.arr.items) <= LimitOf(condensation.key))
  => KeptWhole

(* An array of three elements under a key of limit two has been condensed. *)
C21_Witness ==
  /\ Condensed
  /\ Len(condensation.arr.items) = 3
  /\ LimitOf(condensation.key) = 2
  /\ Len(condensation.out.items) = 3

(* The places of an array that hold an array long enough to be truncated   *)
(* under the key the outer array is held under.                            *)
NestedOverLimit ==
  {i \in 1..Len(condensation.arr.items) :
     /\ condensation.arr.items[i].t = "arr"
     /\ LimitOf(condensation.key) # NotANumber
     /\ Len(condensation.arr.items[i].items) >= MinSizeToTruncate
     /\ Len(condensation.arr.items[i].items) > LimitOf(condensation.key)}

(* C27: an array nested directly inside an array held under key k is       *)
(* truncated with the limit of k: it keeps that many elements and one      *)
(* marker.                                                                 *)
C27_NestedArrayKeepsKey ==
  Condensed =>
    \A i \in NestedOverLimit :
      (i <= Len(condensation.out.items) /\ condensation.out.items[i].t = "arr") =>
        LET K == LimitOf(condensation.key)
            inner == condensation.arr.items[i].items
            out == condensation.out.items[i].items IN
        /\ Len(out) = K + 1
        /\ IsMarker(out[Len(out)])
        /\ out[Len(out)] = Marker(ToString(Len(inner) - K), Len(inner), ToString(K))

(* Call n of the batch goes from not started to started in this step. *)
Starts(n) ==
  /\ n \in DOMAIN callState
  /\ n \in DOMAIN callState'
  /\ callState[n].phase = "notStarted"
  /\ callState'[n].phase # "notStarted"

(* C26: a call that names an unregistered tool fails with 'Tool not        *)
(* found', whether or not the session is in the store, and leaves the      *)
(* store, last-activity included, as it was.                               *)
C26_ToolLookupBeforeSession ==
  [][\A n \in DOMAIN callState :
       (/\ Starts(n)
        /\ coreSessionId # NoSessionId
        /\ ~HasTool(tools, toolCalls[n].name)) =>
          /\ callState'[n].phase = "settled"
          /\ ~callState'[n].ok
          /\ callState'[n].raised = ErrToolNotFound(toolCalls[n].name)
          /\ sessions' = sessions]_vars

(* Calls naming an unregistered tool have failed with 'Tool not found',    *)
(* one while the session was gone from the store.                          *)
C26_Witness ==
  /\ coreSessionId # NoSessionId
  /\ coreSessionId \notin DOMAIN sessions
  /\ \E n \in DOMAIN callState :
       /\ callState[n].phase = "recorded"
       /\ callState[n].raised = ErrToolNotFound("nonExistentTool")

(* This step is one of call n's executeTool, and not its return: the call  *)
(* suspends or throws.                                                     *)
Fails(n) ==
  /\ n \in DOMAIN callState
  /\ n \in DOMAIN callState'
  /\ callState[n].phase \in {"notStarted", "awaiting"}
  /\ callState'[n].phase \in {"awaiting", "settled"}
  /\ callState'[n] # callState[n]
  /\ ~callState'[n].ok

(* C30: no step of a call that throws changes the selected child of any    *)
(* session, id or name: only the step in which a call returns does.        *)
C30_FailureKeepsSelection ==
  [][(\E n \in DOMAIN callState : Fails(n)) =>
        \A k \in DOMAIN sessions :
           k \in DOMAIN sessions' /\ Selection(sessions', k) = Selection(sessions, k)]_vars

(* With a child selected, the switch tool has failed for want of a match   *)
(* and a call of an unregistered tool has failed.                          *)
C30_Witness ==
  /\ coreSessionId \in DOMAIN sessions
  /\ sessions[coreSessionId].selectedChildId = "c2"
  /\ Len(results) = 2
  /\ toolCalls[1].name = SelectChildName
  /\ callState[1].raised = ErrChildNotFound("child", <<>>)
  /\ callState[2].raised = ErrToolNotFound("nonExistentTool")

(* The children of the roster that the text returned by call i names. *)
SelectedBy(i) ==
  {c \in Range(Roster) :
     /\ callState[i].value.kind = "text"
     /\ LET prefix == "Selected child: " \o c.fullName \o " (" IN
        SubSeq(callState[i].value.text, 1, Len(prefix)) = prefix}

(* Call i is the last successful switch of the selection before call j. *)
LastSelectionBefore(i, j) ==
  /\ i < j
  /\ toolCalls[i].name = SelectChildName
  /\ callState[i].phase = "recorded"
  /\ callState[i].ok
  /\ \A k \in (i + 1)..(j - 1) : toolCalls[k].name # SelectChildName

(* C29: after a successful select_child in a batch, a later call of the    *)
(* same batch that works on the selected child fetches with the id of the  *)
(* child that call selected, returns under that child's name, and does not *)
(* fail with 'No child selected'.                                          *)
C29_SelectionVisibleInBatch ==
  \A i, j \in DOMAIN callState :
    (/\ ~toolCalls[j].isNull
     /\ toolCalls[j].name \in SubjectScoped
     /\ LastSelectionBefore(i, j)
     /\ callState[j].phase # "notStarted") =>
       /\ SelectedBy(i) # {}
       /\ callState[j].raised # ErrNoChildSelected
       /\ callState[j].phase = "awaiting" =>
            \E c \in SelectedBy(i) : callState[j].childId = c.childId
       /\ callState[j].ok =>
            \E c \in SelectedBy(i) : callState[j].value.childName = c.fullName

(* A batch has selected the first child of the roster and then fetched     *)
(* with its id.                                                            *)
C29_Witness ==
  /\ Len(toolCalls) = 2
  /\ LastSelectionBefore(1, 2)
  /\ toolCalls[2].name = "get_date_range_metadata"
  /\ callState[2].phase = "awaiting"
  /\ callState[2].childId = "c1"

(* Call n returns in this step, from its suspension on the data service,   *)
(* with a result that carries a child's name.                              *)
ReturnsNamed(n) ==
  /\ n \in DOMAIN callState
  /\ n \in DOMAIN callState'
  /\ callState[n].phase = "awaiting"
  /\ callState'[n].phase = "settled"
  /\ callState'[n].ok
  /\ "childName" \in DOMAIN callState'[n].value

(* C28: the name in the result of a call that works on the selected child  *)
(* is the name of the child whose id the call fetched with, also when the  *)
(* selection changed while the call was suspended.                         *)
C28_OneSubjectThroughout ==
  [][\A n \in DOMAIN callState :
       ReturnsNamed(n) =>
         \E c \in Range(Roster) :
            /\ c.childId = callState[n].childId
            /\ c.fullName = callState'[n].value.childName]_vars


(* ------------------------- journal transformers ------------------------ *)
(* JavaScript values the transformers test with typeof: a number (scores  *)
(* in thousandths, times in milliseconds), NaN, or a value of another     *)
(* type ("undefined", "object" for null, "string").                       *)
JsNumber(v) == [type |-> "number", isNaN |-> FALSE, value |-> v]
JsNaN == [type |-> "number", isNaN |-> TRUE, value |-> 0]
JsOther(type) == [type |-> type, isNaN |-> FALSE, value |-> 0]
JsNull == JsOther("object")
JsUndefined == JsOther("undefined")

(* score < t and score >= t, both false for NaN *)
Below(score, t) == ~score.isNaN /\ score.value < t
AtLeast(score, t) == ~score.isNaN /\ score.value >= t

(* score.toFixed(2) of a score in thousandths that is not half way        *)
(* between two hundredths                                                  *)
toFixed2(score) ==
  IF score.isNaN THEN "NaN"
  ELSE LET h == (score.value + 5) \div 10 IN
       ToString(h \div 100) \o "." \o ToString((h % 100) \div 10) \o ToString(h % 10)

formatScoreLabel(label, score) == label \o " (" \o toFixed2(score) \o "/1.0)"

getMomentSignificance_published(keyMomentScore) ==
  IF keyMomentScore.type # "number" THEN Null
  ELSE formatScoreLabel(IF AtLeast(keyMomentScore, 750) THEN "Major key moment"
                        ELSE IF AtLeast(keyMomentScore, 650) THEN "Notable key moment"
                        ELSE "Minor key moment", keyMomentScore)

getMomentSignificance(keyMomentScore) ==
  IF keyMomentScore.type # "number" \/ Below(keyMomentScore, 550) THEN Null
  ELSE formatScoreLabel(IF AtLeast(keyMomentScore, 750) THEN "Major key moment"
                        ELSE IF AtLeast(keyMomentScore, 650) THEN "Notable key moment"
                        ELSE "Minor key moment", keyMomentScore)

getCrisisLevel(crisisIntensityScore) ==
  IF crisisIntensityScore.type # "number" \/ Below(crisisIntensityScore, 550) THEN Null
  ELSE formatScoreLabel(IF AtLeast(crisisIntensityScore, 750) THEN "Crisis situation"
                        ELSE IF AtLeast(crisisIntensityScore, 650) THEN "High intensity"
                        ELSE "Elevated situation", crisisIntensityScore)

getEffectiveStrategies(effectiveStrategiesScore) ==
  IF effectiveStrategiesScore.type # "number" \/ Below(effectiveStrategiesScore, 550)
  THEN Null
  ELSE formatScoreLabel(IF AtLeast(effectiveStrategiesScore, 750)
                        THEN "Highly effective strategies"
                        ELSE IF AtLeast(effectiveStrategiesScore, 650) THEN "Good strategies"
                        ELSE "Helpful strategies", effectiveStrategiesScore)

(* if (value) result[field] = value *)
WithField(result, field, value) ==
  IF value # Null THEN (field :> value) @@ result ELSE result

(* the three gated fields of one entry, added in the order of the code *)
WithScores(result, scores) ==
  WithField(
    WithField(
      WithField(result, "momentSignificance",
                getMomentSignificance(scores.keyMomentScore)),
      "crisisLevel", getCrisisLevel(scores.crisisIntensityScore)),
    "effectiveStrategies", getEffectiveStrategies(scores.effectiveStrategiesScore))

(* A date string: "YYYY-MM-DD" of the day numbered day, followed by time  *)
(* ("" or "T13:00:00.000Z"); text that is no date; the empty string; or a *)
(* value that is no string.                                                *)
DateString(day, time) == [kind |-> "date", day |-> day, time |-> time]
NoDate(kind) == [kind |-> kind, day |-> 0, time |-> ""]

(* today.setHours(0, 0, 0, 0): midnight of the local day of the clock     *)
(* reading, in a process whose local time is UTC + timezoneOffset          *)
LocalMidnight(clock, timezoneOffset) ==
  ((clock + timezoneOffset) \div DayMs) * DayMs - timezoneOffset

Max(a, b) == IF a >= b THEN a ELSE b

calculateDaysAgo(dateString, clock, timezoneOffset) ==
  IF dateString.kind \in {"undefined", "null", "empty"} THEN JsNull
  ELSE IF dateString.kind = "number" THEN JsNull     \* split is no function: caught
  ELSE IF dateString.kind = "text" THEN JsNull       \* Invalid Date
  ELSE LET entryDate == dateString.day * DayMs
           today == LocalMidnight(clock, timezoneOffset)
           diffDays == (today - entryDate) \div DayMs IN
       JsNumber(Max(0, diffDays))

(* one element of rawResults.results and the entry made of it *)
SearchEntry(item, clock, timezoneOffset) ==
  WithScores([journalEntryId |-> item.document.journalEntryId,
              date |-> item.document.date,
              daysAgo |-> calculateDaysAgo(item.document.date, clock, timezoneOffset)],
             item.document.results)

transformJournalSearchResults(rawResults, childName, clock, timezoneOffset) ==
  [threw |-> FALSE,
   childName |-> childName,
   totalResults |-> Len(rawResults.results),
   results |-> [i \in 1..Len(rawResults.results) |->
                  SearchEntry(rawResults.results[i], clock, timezoneOffset)]]

(* one element of response.results of the feed and the entry made of it;  *)
(* epoch is in seconds                                                     *)
FeedEntry(item, clock) ==
  WithScores([journalEntryId |-> item.journalEntryId,
              date |-> DateString((item.epoch.value * 1000) \div DayMs, ""),
              daysAgo |-> JsNumber((clock - item.epoch.value * 1000) \div DayMs)],
             item)

(* new Date(NaN).toISOString() throws RangeError *)
Thrown == [threw |-> TRUE, childName |-> Null, totalResults |-> 0, results |-> <<>>]

transformFeedToList(response, childName, clock) ==
  IF \E i \in 1..Len(response.results) :
       response.results[i].epoch.type # "number" \/ response.results[i].epoch.isNaN
  THEN Thrown
  ELSE [threw |-> FALSE,
        childName |-> childName,
        totalResults |-> Len(response.results),
        results |-> [i \in 1..Len(response.results) |->
                       FeedEntry(response.results[i], clock)]]


(* ListJournalEntriesTool.execute from the answer of the data service on  *)
PageCap == 100

ListJournalEntriesExecute_uncapped(response, childName, clock) ==
  transformFeedToList(response, childName, clock)

ListJournalEntriesExecute(response, childName, clock) ==
  LET totalFound == Len(response.results)
      truncated == Len(response.results) > PageCap
      transformedResponse ==
        IF truncated
        THEN [response EXCEPT !.results = SubSeq(response.results, 1, PageCap)]
        ELSE response
      transformed == transformFeedToList(transformedResponse, childName, clock) IN
  IF transformed.threw THEN transformed
  ELSE IF truncated
  THEN ("truncated" :> TRUE) @@ ("totalFound" :> totalFound) @@ transformed
  ELSE transformed

(* ------------------------------ the roster ----------------------------- *)
(* the comparator of members.sort: negative when a goes first *)
compareMembers_byCount(a, b) == b.journalEntryCount - a.journalEntryCount

compareMembers(a, b) ==
  IF a.status # b.status /\ a.status = "accepted" THEN 0 - 1
  ELSE IF a.status # b.status /\ b.status = "accepted" THEN 1
  ELSE IF a.status # b.status /\ a.status = "pending" THEN 0 - 1
  ELSE IF a.status # b.status /\ b.status = "pending" THEN 1
  ELSE b.journalEntryCount - a.journalEntryCount

(* Array.prototype.sort is stable, and the comparator is a consistent      *)
(* ordering: an element ends up behind the elements the comparator puts    *)
(* first and behind the earlier elements the comparator ties with it.       *)
SortMembers(members) ==
  LET n == Len(members)
      position == [i \in 1..n |->
                     1 + Cardinality({j \in 1..n :
                           \/ compareMembers(members[j], members[i]) < 0
                           \/ /\ compareMembers(members[j], members[i]) = 0
                              /\ j < i})] IN
  [k \in 1..n |-> members[CHOOSE i \in 1..n : position[i] = k]]

(* member.inviteStatus || 'active' *)
TransformMember(member) ==
  [name |-> member.name,
   status |-> IF member.inviteStatus = Undefined THEN "active" ELSE member.inviteStatus,
   journalEntryCount |-> member.journalEntryCount]

transformVillageMembers(rawResponse, childName) ==
  LET members == SortMembers([i \in 1..Len(rawResponse.members) |->
                                TransformMember(rawResponse.members[i])]) IN
  [threw |-> FALSE,
   childName |-> childName,
   totalMembers |-> Len(members),
   members |-> members]


(* --------------------- calls of the transformers ----------------------- *)
(* A call of a tool's transformer with the answer of the data service:    *)
(* the tool, the answer, the timezone of the process, and the result.      *)
Transforming(tool, response, timezoneOffset) ==
  [phase |-> "called", tool |-> tool, response |-> response,
   timezoneOffset |-> timezoneOffset, out |-> Thrown]

InitTransforming(calls, clocks) ==
  /\ sessions = <<>>
  /\ now \in clocks
  /\ last = Obs("init", NoSessionId, TRUE, NoError, NoSessionId, NoChild)
  /\ allowChildSwitching = Undefined
  /\ tools = GetToolDefinitions(allowChildSwitching)
  /\ pendingUpdateVersion = Null
  /\ coreSessionId = NoSessionId
  /\ invocations = 0
  /\ batchStatus = "idle"
  /\ toolCalls = <<>>
  /\ callState = <<>>
  /\ results = <<>>
  /\ condensation = NotCondensing
  /\ transformation \in calls

Transform(tool, out) ==
  /\ transformation.phase = "called"
  /\ transformation.tool = tool
  /\ transformation' = [transformation EXCEPT !.phase = "returned", !.out = out]
  /\ UNCHANGED <<storeVars, allowChildSwitching, tools, condensation,
                 pendingUpdateVersion, coreSessionId, batchVars>>

(* list_journal_entries, from the answer of apiClient.listJournalEntries on *)
ListJournalEntries ==
  Transform("list_journal_entries",
            ListJournalEntriesExecute(transformation.response, "Child One", now))

(* search_journal_entries, from the answer of apiClient.searchJournals on *)
SearchJournals ==
  Transform("search_journal_entries",
            transformJournalSearchResults(transformation.response, "Child One", now,
                                          transformation.timezoneOffset))

(* list_village_members, from the answer of apiClient.listVillageMembers on *)
ListVillageMembers ==
  Transform("list_village_members",
            transformVillageMembers(transformation.response, "Child One"))

Transformed(tool) == transformation.phase = "returned" /\ transformation.tool = tool

NoScores ==
  [keyMomentScore |-> JsUndefined, crisisIntensityScore |-> JsUndefined,
   effectiveStrategiesScore |-> JsUndefined]

FeedItem(journalEntryId, epoch, scores) ==
  [journalEntryId |-> journalEntryId, epoch |-> epoch,
   keyMomentScore |-> scores.keyMomentScore,
   crisisIntensityScore |-> scores.crisisIntensityScore,
   effectiveStrategiesScore |-> scores.effectiveStrategiesScore]

SearchItem(journalEntryId, date, scores) ==
  [document |-> [journalEntryId |-> journalEntryId, date |-> date, results |-> scores]]

(* ----------------------------- page cap -------------------------------- *)
MaxEntries == 102   \* entries the data service returns for one list

Feed(n) == [results |-> [i \in 1..n |-> FeedItem(i, JsNumber(0), NoScores)]]

Village(n) ==
  [members |-> [i \in 1..n |->
                  [name |-> i, inviteStatus |-> "accepted", journalEntryCount |-> n - i]]]

InitPage ==
  InitTransforming(
    {Transforming("list_journal_entries", Feed(n), 0) : n \in 0..MaxEntries}
      \cup {Transforming("list_village_members", Village(n), 0) : n \in 0..MaxEntries},
    {0})

NextPage == ListJournalEntries \/ ListVillageMembers

SpecPage == InitPage /\ [][NextPage]_vars

(* The entries an operation puts out and the entries it was given. *)
Emitted ==
  IF transformation.tool = "list_village_members"
  THEN [i \in 1..Len(transformation.out.members) |-> transformation.out.members[i].name]
  ELSE [i \in 1..Len(transformation.out.results) |->
          transformation.out.results[i].journalEntryId]

Given ==
  IF transformation.tool = "list_village_members"
  THEN [i \in 1..Len(transformation.response.members) |->
          transformation.response.members[i].name]
  ELSE [i \in 1..Len(transformation.response.results) |->
          IF transformation.tool = "list_journal_entries"
          THEN transformation.response.results[i].journalEntryId
          ELSE transformation.response.results[i].document.journalEntryId]

Capped ==
  LET N == Len(Given) IN
  IF N > 100
  THEN /\ Emitted = SubSeq(Given, 1, 100)
       /\ "truncated" \in DOMAIN transformation.out
       /\ transformation.out.truncated = TRUE
       /\ "totalFound" \in DOMAIN transformation.out
       /\ transformation.out.totalFound = N
  ELSE /\ Emitted = Given
       /\ "truncated" \notin DOMAIN transformation.out

\* C22 (as stated): every list-returning operation given N entries puts
\* out the first 100 with truncated = true and total found N when N > 100,
\* and all N without a truncated flag otherwise.
C22_EveryListCapped ==
  transformation.phase = "returned" => Capped

\* C22: list_journal_entries given N entries puts out the first 100 in
\* their order with truncated = true and totalFound = N when N > 100, and
\* all N without a truncated flag when N <= 100.
C22_JournalListCapped ==
  Transformed("list_journal_entries") => Capped

C22_Witness ==
  /\ Transformed("list_journal_entries")
  /\ Len(Given) = 101
  /\ Len(Emitted) = 100
  /\ transformation.out.totalFound = 101


(* ------------------------------ scores --------------------------------- *)
(* Scores the data service may give, in thousandths: numbers on both      *)
(* sides of every threshold, NaN, and values that are no numbers.          *)
ScoreChoices ==
  {JsNumber(v) : v \in {0, 549, 550, 649, 650, 749, 750, 994, 996, 1000}}
    \cup {JsNaN, JsUndefined, JsNull, JsOther("string")}

ScoreSets ==
  [keyMomentScore : ScoreChoices, crisisIntensityScore : ScoreChoices,
   effectiveStrategiesScore : ScoreChoices]

InitScores ==
  InitTransforming(
    {Transforming("search_journal_entries",
                  [results |-> <<SearchItem("e1", DateString(0, ""), s)>>], 0) :
       s \in ScoreSets}
      \cup {Transforming("list_journal_entries",
                         [results |-> <<FeedItem("e1", JsNumber(0), s)>>], 0) :
              s \in ScoreSets},
    {0})

NextEntries == SearchJournals \/ ListJournalEntries

SpecScores == InitScores /\ [][NextEntries]_vars

(* The three gated dimensions: the field of the entry, the score of the   *)
(* item it is made of, and the tier labels of the dimension.               *)
Dimensions ==
  {[field |-> "momentSignificance", score |-> "keyMomentScore",
    labels |-> {"Major key moment", "Notable key moment", "Minor key moment"}],
   [field |-> "crisisLevel", score |-> "crisisIntensityScore",
    labels |-> {"Crisis situation", "High intensity", "Elevated situation"}],
   [field |-> "effectiveStrategies", score |-> "effectiveStrategiesScore",
    labels |-> {"Highly effective strategies", "Good strategies",
                "Helpful strategies"}]}

(* the scores of the i-th item given to the transformer *)
ScoresGiven(i) ==
  IF transformation.tool = "search_journal_entries"
  THEN transformation.response.results[i].document.results
  ELSE transformation.response.results[i]

(* the publishable scores written with two decimals *)
TwoDecimals ==
  (550 :> "0.55") @@ (649 :> "0.65") @@ (650 :> "0.65") @@ (749 :> "0.75")
    @@ (750 :> "0.75") @@ (994 :> "0.99") @@ (996 :> "1.00") @@ (1000 :> "1.00")

EntriesOut ==
  transformation.phase = "returned" /\ ~transformation.out.threw
    /\ transformation.tool \in {"search_journal_entries", "list_journal_entries"}

\* C23: in every entry put out, each of momentSignificance, crisisLevel and
\* effectiveStrategies is absent when its score is a number below 0.55, and
\* is "<tier label> (<score with two decimals>/1.0)" when its score is a
\* number at or above 0.55.
C23_ScoreGates ==
  EntriesOut =>
    \A i \in 1..Len(transformation.out.results) : \A dim \in Dimensions :
      LET entry == transformation.out.results[i]
          score == ScoresGiven(i)[dim.score] IN
      /\ (score.type = "number" /\ Below(score, 550)) => dim.field \notin DOMAIN entry
      /\ (score.type = "number" /\ AtLeast(score, 550)) =>
           /\ dim.field \in DOMAIN entry
           /\ \E label \in dim.labels :
                entry[dim.field] = label \o " (" \o TwoDecimals[score.value] \o "/1.0)"

C23_Witness ==
  /\ Transformed("search_journal_entries")
  /\ ~transformation.out.threw
  /\ transformation.response.results[1].document.results.keyMomentScore = JsNumber(649)
  /\ transformation.response.results[1].document.results.crisisIntensityScore = JsNumber(549)
  /\ transformation.out.results[1].momentSignificance = "Minor key moment (0.65/1.0)"
  /\ "crisisLevel" \notin DOMAIN transformation.out.results[1]


(* ------------------------------ days ago ------------------------------- *)
MaxEntryDay == 2    \* days the clock readings span; entry dates span one more each way

(* clock readings: every whole hour of the days 1..MaxEntryDay *)
ClockReadings == {h * HourMs : h \in 24..((MaxEntryDay + 1) * 24 - 1)}

(* the local time of the process is UTC + offset *)
TimezoneOffsets == {0 - 5 * HourMs, 0, 2 * HourMs}

DateChoices ==
  {DateString(day, time) : day \in 0..(MaxEntryDay + 1), time \in {"", "T13:00:00.000Z"}}
    \cup {NoDate(kind) : kind \in {"undefined", "null", "empty", "text", "number"}}

(* epochs in seconds: every whole hour of the days 0..MaxEntryDay + 1, or none *)
EpochChoices ==
  {JsNumber(h * 3600) : h \in 0..((MaxEntryDay + 2) * 24 - 1)} \cup {JsUndefined}

InitDaysAgo ==
  InitTransforming(
    {Transforming("search_journal_entries",
                  [results |-> <<SearchItem("e1", date, NoScores)>>], offset) :
       date \in DateChoices, offset \in TimezoneOffsets}
      \cup {Transforming("list_journal_entries",
                         [results |-> <<FeedItem("e1", epoch, NoScores)>>], 0) :
              epoch \in EpochChoices},
    ClockReadings)

SpecDaysAgo == InitDaysAgo /\ [][NextEntries]_vars

(* The date of the first item given: its day, when it has one. *)
HasEntryDay ==
  IF transformation.tool = "search_journal_entries"
  THEN transformation.response.results[1].document.date.kind = "date"
  ELSE transformation.response.results[1].epoch.type = "number"

EntryDay ==
  IF transformation.tool = "search_journal_entries"
  THEN transformation.response.results[1].document.date.day
  ELSE (transformation.response.results[1].epoch.value * 1000) \div DayMs

\* C24: every path that reports daysAgo reports the number of UTC calendar
\* days from the entry's date to today's, never below zero, and reports
\* null, without throwing, when the date is missing or is no date.
C24_DaysAgoUtc ==
  (transformation.phase = "returned"
     /\ transformation.tool \in {"search_journal_entries", "list_journal_entries"}) =>
    /\ ~transformation.out.threw
    /\ transformation.out.results[1].daysAgo =
         IF HasEntryDay THEN JsNumber(Max(0, now \div DayMs - EntryDay)) ELSE JsNull


(* ------------------------------ roster order --------------------------- *)
MaxMembers == 3     \* members of a village the data service returns

InviteStatuses == {"accepted", "pending", "expired", Undefined}
EntryCounts == {0, 2, 5}

Member(name, inviteStatus, journalEntryCount) ==
  [name |-> name, inviteStatus |-> inviteStatus, journalEntryCount |-> journalEntryCount]

(* the members of the sort test, named by their place in the answer *)
SortTestMembers ==
  <<Member(1, "expired", 10), Member(2, "pending", 0), Member(3, "accepted", 5),
    Member(4, "accepted", 50), Member(5, "pending", 2)>>

VillagesOf(n) ==
  {[members |-> [i \in 1..n |-> Member(i, f[i][1], f[i][2])]] :
     f \in [1..n -> InviteStatuses \X EntryCounts]}

InitRoster ==
  InitTransforming(
    {Transforming("list_village_members", village, 0) :
       village \in UNION {VillagesOf(n) : n \in 0..MaxMembers}
                     \cup {[members |-> SortTestMembers]}},
    {0})

NextRoster == ListVillageMembers

SpecRoster == InitRoster /\ [][NextRoster]_vars

(* accepted first, pending second, every other status third *)
Partition(status) ==
  IF status = "accepted" THEN 1 ELSE IF status = "pending" THEN 2 ELSE 3

\* C25: the roster put out holds the members given, every accepted member
\* before every pending one and every pending one before the members of any
\* other status, each of the three groups in non-increasing order of
\* journal entry count; the members of the sort test come out as accepted/50,
\* accepted/5, pending/2, pending/0, expired/10.
C25_RosterOrder ==
  Transformed("list_village_members") =>
    LET given == transformation.response.members
        out == transformation.out.members IN
    /\ Len(out) = Len(given)
    /\ {out[i].name : i \in 1..Len(out)} = {given[i].name : i \in 1..Len(given)}
    /\ \A i \in 1..Len(out) : \A j \in (i + 1)..Len(out) :
         /\ Partition(out[i].status) <= Partition(out[j].status)
         /\ Partition(out[i].status) = Partition(out[j].status) =>
              out[i].journalEntryCount >= out[j].journalEntryCount
    /\ given = SortTestMembers =>
         [i \in 1..Len(out) |-> out[i].name] = <<4, 3, 5, 2, 1>>

C25_Witness ==
  /\ Transformed("list_village_members")
  /\ transformation.response.members = SortTestMembers
  /\ [i \in 1..5 |-> <<transformation.out.members[i].status,
                       transformation.out.members[i].journalEntryCount>>]
       = <<<<"accepted", 50>>, <<"accepted", 5>>, <<"pending", 2>>, <<"pending", 0>>,
           <<"expired", 10>>>>

====
